---------------------------- MODULE Spec2Model ----------------------------
(***************************************************************************)
(* A model of the numerical core in src/wasm/psf-wasm.c (FFT engine, PSF   *)
(* pipeline, process-wide caches) and src/ray-tracing-wasm.c (Newton       *)
(* ray/asphere intersection).                                              *)
(*                                                                         *)
(* Complex numbers are exact: an element of Z[zeta]/2^e, zeta a primitive  *)
(* U-th root of unity (U a power of two), kept as a record                 *)
(*   [c |-> coefficient of zeta^k for the k with a nonzero coefficient,    *)
(*    e |-> exponent of the power-of-two denominator].                     *)
(* Since zeta^(U/2) = -1 and 1, zeta, ..., zeta^(U/2-1) is a basis, two    *)
(* numbers are equal exactly when their normalised records are equal.      *)
(* An angle is an integer a standing for 2*pi*a/U.                         *)
(***************************************************************************)
EXTENDS Integers, Sequences, FiniteSets, TLC

----------------------------------------------------------------------------
(* Bounds of the model.                                                    *)

\* log2 of the longest FFT the divide-and-conquer comparison runs
MaxLog2DC == 7
\* log2 of the longest FFT a direct fft_1d call of the cache model runs
MaxLog2N == 3
\* log2 of the largest PSF grid side
MaxLog2Grid == 1

RECURSIVE Pow2(_)
Pow2(k) == IF k <= 0 THEN 1 ELSE 2 * Pow2(k - 1)

\* angles are multiples of 1/U of a turn
U == Pow2(MaxLog2DC)
H == U \div 2

----------------------------------------------------------------------------
(* Exact complex arithmetic (struct Complex).                              *)

Coef(a, k) == IF k \in DOMAIN a THEN a[k] ELSE 0

RECURSIVE Normalise(_, _)
Normalise(c, e) ==
    IF DOMAIN c = {} THEN [c |-> c, e |-> 0]
    ELSE IF e > 0 /\ \A k \in DOMAIN c : c[k] % 2 = 0
         THEN Normalise([k \in DOMAIN c |-> c[k] \div 2], e - 1)
         ELSE [c |-> c, e |-> e]

CZero == [c |-> <<>>, e |-> 0]

\* the root of unity at angle k: (cos(2 pi k/U), sin(2 pi k/U))
Root(k) ==
    LET m == k % U
    IN  IF m < H THEN [c |-> [x \in {m} |-> 1], e |-> 0]
        ELSE [c |-> [x \in {m - H} |-> -1], e |-> 0]

COne == Root(0)

CLin(a, sa, b, sb) ==
    LET m   == IF a.e > b.e THEN a.e ELSE b.e
        fa  == sa * Pow2(m - a.e)
        fb  == sb * Pow2(m - b.e)
        D   == DOMAIN a.c \cup DOMAIN b.c
        s(k) == fa * Coef(a.c, k) + fb * Coef(b.c, k)
        nz  == {k \in D : s(k) # 0}
    IN  Normalise([k \in nz |-> s(k)], m)

CAdd(a, b) == CLin(a, 1, b, 1)
CSub(a, b) == CLin(a, 1, b, -1)

\* a * w for w the root of unity at angle k:
\* (a.re*w.re - a.im*w.im, a.re*w.im + a.im*w.re)
CMulRoot(a, k) ==
    LET m    == k % U
        img(x) == (x + m) % U
        D    == {img(x) % H : x \in DOMAIN a.c}
        pre(y) == LET x1 == (y - m) % U IN IF x1 < H THEN x1 ELSE x1 - H
        sgn(y) == IF img(pre(y)) < H THEN 1 ELSE -1
    IN  [c |-> [y \in D |-> sgn(y) * a.c[pre(y)]], e |-> a.e]

\* a * (1.0 / n) for n = 2^k (exact in binary floating point)
RECURSIVE Log2(_)
Log2(n) == IF n <= 1 THEN 0 ELSE 1 + Log2(n \div 2)

CScale(a, n) == Normalise(a.c, a.e + Log2(n))


----------------------------------------------------------------------------
(* The process-wide caches (psf-wasm.c:100-111).  A cache state is a       *)
(* record with the fields of the C statics.  A pointer is NULL or ALLOC;   *)
(* the twiddle table is kept with its contents, <<>> standing for NULL,    *)
(* entry i being the angle a of the root (cos a, sin a) stored there.      *)

VARIABLES twiddle_table, twiddle_table_size,
          sin_table, cos_table, trig_table_size,
          fft_temp_buffer, fft_temp_capacity

NULL == "NULL"
ALLOC == "ALLOC"

cacheVars == <<twiddle_table, twiddle_table_size, sin_table, cos_table,
               trig_table_size, fft_temp_buffer, fft_temp_capacity>>

Caches == [twiddle_table |-> twiddle_table,
           twiddle_table_size |-> twiddle_table_size,
           sin_table |-> sin_table, cos_table |-> cos_table,
           trig_table_size |-> trig_table_size,
           fft_temp_buffer |-> fft_temp_buffer,
           fft_temp_capacity |-> fft_temp_capacity]

\* the statics' initialisers
NoCaches == [twiddle_table |-> <<>>, twiddle_table_size |-> 0,
             sin_table |-> NULL, cos_table |-> NULL, trig_table_size |-> 0,
             fft_temp_buffer |-> NULL, fft_temp_capacity |-> 0]

SetCaches(k) ==
    /\ twiddle_table' = k.twiddle_table
    /\ twiddle_table_size' = k.twiddle_table_size
    /\ sin_table' = k.sin_table
    /\ cos_table' = k.cos_table
    /\ trig_table_size' = k.trig_table_size
    /\ fft_temp_buffer' = k.fft_temp_buffer
    /\ fft_temp_capacity' = k.fft_temp_capacity

\* a growth that allocates first and keeps the old buffer when malloc fails
ensure_fft_temp_buffer_keep(k, need_elements, ok) ==
    IF k.fft_temp_capacity < need_elements /\ ok
    THEN [k EXCEPT !.fft_temp_buffer = ALLOC,
                   !.fft_temp_capacity = need_elements]
    ELSE k

\* ensure_fft_temp_buffer(need_elements); ok: whether malloc succeeds
ensure_fft_temp_buffer(k, need_elements, ok) ==
    IF k.fft_temp_capacity < need_elements
    THEN IF ok
         THEN [k EXCEPT !.fft_temp_buffer = ALLOC,
                        !.fft_temp_capacity = need_elements]
         ELSE [k EXCEPT !.fft_temp_buffer = NULL,
                        !.fft_temp_capacity = 0]
    ELSE k

\* init_fast_trig_tables(max_size): entry i of the tables is sin/cos of
\* 2 pi i / trig_table_size
init_fast_trig_tables(k, max_size) ==
    [k EXCEPT !.trig_table_size = max_size * 4,
              !.sin_table = ALLOC, !.cos_table = ALLOC]

\* C fmod(x, U): the remainder with the sign of x
Fmod(x, m) == IF x >= 0 THEN x % m ELSE -((-x) % m)

\* The angle whose sine/cosine a table lookup for the (finite) angle x
\* returns: index = (int)((x / 2 pi) * trig_table_size), clamped.
TableAngle(x, size) ==
    LET r     == Fmod(x, U)
        r2    == IF r < 0 THEN r + U ELSE r
        idx   == (r2 * size) \div U
        index == IF idx >= size THEN size - 1 ELSE idx
    IN  (index * U) \div size

\* fast_sin / fast_cos of a finite angle x, as the angle whose sine (cosine)
\* is returned: libm's when the table is absent, the table's otherwise.
fast_sin(k, x) ==
    IF k.sin_table = NULL THEN x % U ELSE TableAngle(x, k.trig_table_size)

fast_cos(k, x) ==
    IF k.cos_table = NULL THEN x % U ELSE TableAngle(x, k.trig_table_size)

\* init_twiddle_table(max_size): entry i is (fast_cos(angle), fast_sin(angle))
\* for angle = -2 pi i / max_size.  sin_table and cos_table are present
\* together, so both lookups return the same angle, which is stored.
init_twiddle_table(k, max_size) ==
    [k EXCEPT !.twiddle_table_size = max_size,
              !.twiddle_table =
                  [i \in 0..(max_size - 1) |->
                      fast_cos(k, -((i * U) \div max_size))]]

----------------------------------------------------------------------------
(* The 1D FFT (psf-wasm.c:258-385).  An array is a function on 0..n-1.     *)

\* an array with every element computed (the same function, held as a table)
Arr(f) == f @@ <<>>

\* the while loop and the xor of the bit reversal: the next j
RECURSIVE BitLoop(_, _)
BitLoop(j, bit) ==
    IF bit > 0 /\ (j \div bit) % 2 = 1
    THEN BitLoop(j - bit, bit \div 2)
    ELSE j + bit

Swap(data, i, j) == [data EXCEPT ![i] = data[j], ![j] = data[i]]

\* one pass of the bit-reversal loop body for index i: st = [data, j]
BitReverseStep(st, n, i) ==
    LET j2 == BitLoop(st.j, n \div 2)
    IN  [data |-> IF i < j2 THEN Swap(st.data, i, j2) ELSE st.data, j |-> j2]

\* the loop over i in lo..hi-1, run in order (split in halves, the first half
\* evaluated before the second is entered, to keep the evaluation shallow;
\* j is never negative)
RECURSIVE BitReverseRange(_, _, _, _)
BitReverseRange(st, n, lo, hi) ==
    IF hi <= lo THEN st
    ELSE IF hi = lo + 1 THEN BitReverseStep(st, n, lo)
    ELSE LET mid == (lo + hi) \div 2
             left == BitReverseRange(st, n, lo, mid)
         IN  IF left.j < 0 THEN left ELSE BitReverseRange(left, n, mid, hi)

BitReverse(data, n) ==
    BitReverseRange([data |-> Arr(data), j |-> 0], n, 1, n).data

\* the index read from the twiddle table at stage len, position j
TwiddleIdx(n, len, j, inverse) ==
    LET step == n \div len
        t0   == j * step
        t1   == IF inverse THEN n - t0 ELSE t0
    IN  IF t1 >= n THEN t1 - n ELSE t1

\* one butterfly stage: every group i, every position j < len/2
Stage(data, n, len, inverse, table) ==
    LET half == len \div 2
        out(p) ==
            LET pos == p % len
                j   == pos % half
                lo  == p - pos + j
                w   == table[TwiddleIdx(n, len, j, inverse)]
                u   == data[lo]
                v   == CMulRoot(data[lo + half], w)
            IN  IF pos < half THEN CAdd(u, v) ELSE CSub(u, v)
        next == [p \in 0..(n - 1) |-> out(p)]
    IN  Arr(next)

\* the loop over len = 2, 4, ..., n (each stage is computed before the next
\* is entered; an array of n >= 2 elements is never empty)
RECURSIVE Stages(_, _, _, _, _)
Stages(data, n, len, inverse, table) ==
    IF len > n THEN data
    ELSE LET next == Stage(data, n, len, inverse, table)
         IN  IF next = <<>> THEN next
             ELSE Stages(next, n, 2 * len, inverse, table)

\* the final loop: scale by 1/n when inverse
InverseScale(data, n, inverse) ==
    IF inverse THEN Arr([p \in 0..(n - 1) |-> CScale(data[p], n)]) ELSE data

\* fft_1d_iterative: returns the array and the caches after the call
\* (each local of the C function is the parameter of the operator that
\* continues from its assignment, here and below)
Fft1dScaled(k1, d2, n, inverse) ==
    [data |-> IF d2 = <<>> THEN d2 ELSE InverseScale(d2, n, inverse),
     k |-> k1]

Fft1dStaged(k1, d1, n, inverse) ==
    Fft1dScaled(k1,
                IF d1 = <<>> THEN d1
                ELSE Stages(d1, n, 2, inverse, Arr(k1.twiddle_table)),
                n, inverse)

fft_1d_iterative(k, data, n, inverse) ==
    Fft1dStaged(IF k.twiddle_table = <<>> \/ k.twiddle_table_size < n
                THEN init_twiddle_table(k, n) ELSE k,
                BitReverse(data, n), n, inverse)

\* fft_1d: the same body behind the guard n <= 1
fft_1d(k, data, n, inverse) ==
    IF n <= 1 THEN [data |-> data, k |-> k]
    ELSE fft_1d_iterative(k, data, n, inverse)

----------------------------------------------------------------------------
(* The divide-and-conquer FFT (psf-wasm.c:207-253).                        *)

\* the size up to which fft_1d_divide_conquer hands over to
\* fft_1d_iterative
DCThreshold == 64

\* ok: whether the mallocs of even/odd succeed (the first failure returns
\* before any other allocation is reached)
RECURSIVE fft_1d_divide_conquer(_, _, _, _, _)

\* the combining loop over the transformed halves fe and fo
DcCombine(fe, fo, n, inverse) ==
    LET half == n \div 2
        w(j) == fast_cos(fo.k, IF inverse THEN (j * U) \div n
                                          ELSE -((j * U) \div n))
        t(j) == CMulRoot(fo.data[j], w(j))
    IN  [data |-> Arr([p \in 0..(n - 1) |->
                         IF p < half THEN CAdd(fe.data[p], t(p))
                         ELSE CSub(fe.data[p - half], t(p - half))]),
         k |-> fo.k]

\* the second recursive call, after the first returned fe
DcOdd(fe, odd, n, inverse, ok) ==
    IF fe.data = <<>> THEN fe
    ELSE DcCombine(fe,
                   fft_1d_divide_conquer(fe.k, odd, n \div 2, inverse, ok),
                   n, inverse)

fft_1d_divide_conquer(k, data, n, inverse, ok) ==
    IF n <= 1 THEN [data |-> data, k |-> k]
    ELSE IF n <= DCThreshold THEN fft_1d_iterative(k, data, n, inverse)
    ELSE IF ~ok THEN [data |-> data, k |-> k]
    ELSE
      LET half == n \div 2
          even == Arr([i \in 0..(half - 1) |-> data[2 * i]])
          odd  == Arr([i \in 0..(half - 1) |-> data[2 * i + 1]])
      IN  DcOdd(fft_1d_divide_conquer(k, even, half, inverse, ok),
                odd, n, inverse, ok)

----------------------------------------------------------------------------
(* The 2D FFT (psf-wasm.c:390-450).  A width x height array is row-major   *)
(* on 0..width*height-1.                                                   *)

\* transpose_complex: dst[jj*height + ii] = src[ii*width + jj], every block
transpose_complex(src, width, height) ==
    Arr([q \in 0..(width * height - 1) |->
            src[(q % height) * width + (q \div height)]])

Row(data, i, W) == Arr([j \in 0..(W - 1) |-> data[i * W + j]])

\* fft_1d on each of the `rows` rows of length len, in order.  The first row
\* builds the twiddle table when the guard of fft_1d asks for it; the later
\* rows find it built (k1).
FftRowsBuilt(k1, data, len, rows, inverse) ==
    [data |-> Arr([q \in 0..(len * rows - 1) |->
                     fft_1d(k1, Row(data, q \div len, len), len,
                            inverse).data[q % len]]),
     k |-> k1]

FftRows(k, data, len, rows, inverse) ==
    FftRowsBuilt(IF rows > 0
                 THEN fft_1d(k, Row(data, 0, len), len, inverse).k
                 ELSE k,
                 data, len, rows, inverse)

\* the second transpose, after the column pass r2
Fft2dBack(r2, width, height) ==
    [data |-> transpose_complex(r2.data, height, width), k |-> r2.k]

\* the first transpose and the column pass, after the row pass r1
Fft2dColumns(r1, width, height, inverse) ==
    Fft2dBack(IF r1.data = <<>> THEN r1
              ELSE FftRows(r1.k, transpose_complex(r1.data, width, height),
                           height, width, inverse),
              width, height)

\* a body that does not test the scratch buffer
Fft2dRun_nocheck(k1, data, width, height, inverse) ==
    Fft2dColumns(FftRows(k1, data, width, height, inverse),
                 width, height, inverse)

\* the body of fft_2d once ensure_fft_temp_buffer has returned
Fft2dRun(k1, data, width, height, inverse) ==
    IF k1.fft_temp_buffer = NULL THEN [data |-> data, k |-> k1]
    ELSE Fft2dColumns(FftRows(k1, data, width, height, inverse),
                      width, height, inverse)

\* fft_2d; ok: whether the malloc in ensure_fft_temp_buffer succeeds
fft_2d(k, data, width, height, inverse, ok) ==
    Fft2dRun(ensure_fft_temp_buffer(k, width * height, ok),
             data, width, height, inverse)

----------------------------------------------------------------------------
(* The PSF entry points (psf-wasm.c:624-831): the buffers of one call.     *)
(* A call's heap maps each buffer it names to how often the call (and      *)
(* free_psf_result after it) allocated and freed it.                       *)

RayBuffers == <<"grid_opd", "amplitude", "pupil_mask", "complex_amp",
                "psf_intensity">>
GridBuffers == <<"complex_amp", "psf_intensity">>
BufferNames == {RayBuffers[i] : i \in 1..Len(RayBuffers)}

NoHeap == [b \in BufferNames |-> [allocs |-> 0, frees |-> 0]]

Live(h, b) == h[b].allocs > h[b].frees

\* p = malloc/calloc(..): succeeds when b is in okset
Alloc(h, b, okset) ==
    IF b \in okset THEN [h EXCEPT ![b].allocs = @ + 1] ELSE h

\* free(p)
Free(h, b) == [h EXCEPT ![b].frees = @ + 1]

\* if (p) free(p)
FreeIfSet(h, b) == IF Live(h, b) THEN Free(h, b) ELSE h

RECURSIVE AllocAll(_, _, _, _)
AllocAll(h, names, i, okset) ==
    IF i > Len(names) THEN h
    ELSE AllocAll(Alloc(h, names[i], okset), names, i + 1, okset)

RECURSIVE FreeAllSet(_, _, _)
FreeAllSet(h, names, i) ==
    IF i > Len(names) THEN h
    ELSE FreeAllSet(FreeIfSet(h, names[i]), names, i + 1)

RECURSIVE FreeAll(_, _, _)
FreeAll(h, names, i) ==
    IF i > Len(names) THEN h
    ELSE FreeAll(Free(h, names[i]), names, i + 1)

\* a sin/cos guard that rebuilds the tables on every call
EnsureTrig_always(k, total_size) == init_fast_trig_tables(k, total_size)

\* the guard in front of init_fast_trig_tables (psf-wasm.c:467, 633, 739)
EnsureTrig(k, total_size) ==
    IF k.sin_table = NULL \/ k.trig_table_size < total_size
    THEN init_fast_trig_tables(k, total_size) ELSE k

\* the complex_amp of a call before its pupil is written (calloc, memset)
ZeroField(total_size) == [q \in 0..(total_size - 1) |-> CZero]

\* a calculate_psf_wasm whose failure path returns without freeing
calculate_psf_wasm_leak(k, grid_size, okset, ok) ==
    LET total_size == grid_size * grid_size
        k1 == EnsureTrig(k, total_size)
        h1 == AllocAll(NoHeap, RayBuffers, 1, okset)
        failed == \E i \in 1..Len(RayBuffers) : ~Live(h1, RayBuffers[i])
        f  == fft_2d(k1, ZeroField(total_size), grid_size, grid_size, FALSE, ok)
        h2 == FreeAll(h1, SubSeq(RayBuffers, 1, 4), 1)
    IN  IF failed
        THEN [k |-> k1, heap |-> h1, ret |-> NULL]
        ELSE [k |-> f.k, heap |-> h2, ret |-> ALLOC]

\* calculate_psf_wasm, as far as the caches and the heap go.  okset: the
\* allocations of the call that succeed; ok: the scratch buffer's malloc.
\* Returns the caches, the call's heap and the pointer returned.
calculate_psf_wasm(k, grid_size, okset, ok) ==
    LET total_size == grid_size * grid_size
        k1 == EnsureTrig(k, total_size)
        h1 == AllocAll(NoHeap, RayBuffers, 1, okset)
        failed == \E i \in 1..Len(RayBuffers) : ~Live(h1, RayBuffers[i])
        k2 == EnsureTrig(k1, total_size)
        f  == fft_2d(k2, ZeroField(total_size), grid_size, grid_size, FALSE, ok)
        h2 == FreeAll(h1, SubSeq(RayBuffers, 1, 4), 1)
    IN  IF failed
        THEN [k |-> k1, heap |-> FreeAllSet(h1, RayBuffers, 1), ret |-> NULL]
        ELSE [k |-> f.k, heap |-> h2, ret |-> ALLOC]

\* calculate_psf_grid_wasm, likewise
calculate_psf_grid_wasm(k, grid_size, okset, ok) ==
    LET total_size == grid_size * grid_size
        k1 == EnsureTrig(k, total_size)
        h1 == AllocAll(NoHeap, GridBuffers, 1, okset)
        failed == \E i \in 1..Len(GridBuffers) : ~Live(h1, GridBuffers[i])
        f  == fft_2d(k1, ZeroField(total_size), grid_size, grid_size, FALSE, ok)
        h2 == Free(h1, "complex_amp")
    IN  IF failed
        THEN [k |-> k1, heap |-> FreeAllSet(h1, GridBuffers, 1), ret |-> NULL]
        ELSE [k |-> f.k, heap |-> h2, ret |-> ALLOC]

\* free_psf_result(psf): if (psf) free(psf)
free_psf_result(h, psf) ==
    IF psf # NULL THEN Free(h, "psf_intensity") ELSE h

\* cleanup_wasm_module: the resets of trig_table_size and of the scratch
\* buffer sit inside the if (cos_table) block (psf-wasm.c:848-853)
cleanup_wasm_module(k) ==
    LET k1 == IF k.twiddle_table # <<>>
              THEN [k EXCEPT !.twiddle_table = <<>>,
                             !.twiddle_table_size = 0]
              ELSE k
        k2 == IF k1.sin_table # NULL THEN [k1 EXCEPT !.sin_table = NULL]
              ELSE k1
        k3 == IF k2.cos_table # NULL
              THEN LET k4 == [k2 EXCEPT !.cos_table = NULL,
                                        !.trig_table_size = 0]
                   IN  IF k4.fft_temp_buffer # NULL
                       THEN [k4 EXCEPT !.fft_temp_buffer = NULL,
                                       !.fft_temp_capacity = 0]
                       ELSE k4
              ELSE k2
    IN  k3

----------------------------------------------------------------------------
(* The cache model: any sequence of FFT, PSF and cleanup calls.            *)

VARIABLES
    data,     \* the caller's complex array after the last call, when that
              \* was an FFT call (<<>> otherwise)
    rt,       \* the round trip in progress on data: [state, n, orig]
    last,     \* the last call: its name, the scratch elements it asked for
              \* (need), whether the scratch malloc could succeed (ok), and
              \* the scratch buffer and capacity it found (buf0, cap0)
    maxReq,   \* the largest FFT length fft_1d was asked for since the
              \* twiddle table was last absent
    heap,     \* the buffers of the last call, when that was a PSF call or
              \* the free_psf_result after it
    ret       \* the pointer that PSF call returned: NULL, ALLOC, or
              \* "RELEASED" once free_psf_result has been given it

callVars == <<data, rt, last, maxReq, heap, ret>>

NoRt == [state |-> "none", n |-> 0, orig |-> <<>>]
Call(op, need, ok) ==
    [op |-> op, need |-> need, ok |-> ok,
     buf0 |-> fft_temp_buffer, cap0 |-> fft_temp_capacity]
NoCall == [op |-> "start", need |-> 0, ok |-> TRUE, buf0 |-> NULL, cap0 |-> 0]

I4 == Root(U \div 4)

\* the arrays a caller hands in
Imp(n, p, v) == [q \in 0..(n - 1) |-> IF q = p THEN v ELSE CZero]
Mixed(n) == [q \in 0..(n - 1) |->
               IF q % 4 = 0 THEN COne
               ELSE IF q % 4 = 1 THEN I4
               ELSE IF q % 4 = 2 THEN CAdd(COne, COne) ELSE CZero]
Inputs(n) == {Arr(Imp(n, 0, COne)), Arr(Imp(n, 1, I4)), Arr(Mixed(n))}

Lengths == {Pow2(e) : e \in 0..MaxLog2N}
GridSizes == {Pow2(e) : e \in 0..MaxLog2Grid}

Max(a, b) == IF a > b THEN a ELSE b

\* the lengths fft_1d is asked for by a width x height fft_2d that runs
ReqOf2d(m, width, height) ==
    Max(m, Max(IF width > 1 THEN width ELSE 0,
               IF height > 1 THEN height ELSE 0))

\* what a returned fft_1d leaves: the caches and the caller's array
Fft1dDone(f) == SetCaches(f.k) /\ data' = f.data

\* a caller's fft_1d on a fresh array x
Fft1dCall(n, inverse, x) ==
    /\ Fft1dDone(fft_1d(Caches, x, n, inverse))
    /\ rt' = IF inverse THEN NoRt
             ELSE [state |-> "fwd", n |-> n, orig |-> x]
    /\ last' = Call("fft_1d", 0, TRUE)
    /\ maxReq' = IF n > 1 THEN Max(maxReq, n) ELSE maxReq
    /\ heap' = NoHeap /\ ret' = NULL

\* the inverse fft_1d of the same length on the array a forward call left
Fft1dBack ==
    /\ rt.state = "fwd"
    /\ Fft1dDone(fft_1d(Caches, data, rt.n, TRUE))
    /\ rt' = [rt EXCEPT !.state = "back"]
    /\ last' = Call("fft_1d", 0, TRUE)
    /\ maxReq' = IF rt.n > 1 THEN Max(maxReq, rt.n) ELSE maxReq
    /\ heap' = NoHeap /\ ret' = NULL

\* the outcomes of the malloc in ensure_fft_temp_buffer that a call asking
\* for need elements can see: the malloc runs only when the buffer must grow
MallocOutcomes(need) ==
    IF fft_temp_capacity < need THEN BOOLEAN ELSE {TRUE}

\* what a returned fft_2d leaves
Fft2dDone(f, width, height) ==
    /\ SetCaches(f.k)
    /\ data' = f.data
    /\ maxReq' = IF f.k.fft_temp_buffer = NULL THEN maxReq
                 ELSE ReqOf2d(maxReq, width, height)

\* a caller's fft_2d on a fresh width x height array x
Fft2dCall(width, height, inverse, x, ok) ==
    /\ Fft2dDone(fft_2d(Caches, x, width, height, inverse, ok),
                 width, height)
    /\ rt' = [state |-> "2d", n |-> width * height, orig |-> x]
    /\ last' = Call("fft_2d", width * height, ok)
    /\ heap' = NoHeap /\ ret' = NULL

PsfDone(r, op, grid_size, ok) ==
    /\ SetCaches(r.k)
    /\ heap' = r.heap
    /\ ret' = r.ret
    /\ rt' = NoRt
    /\ last' = Call(op, IF r.ret = NULL THEN 0 ELSE grid_size * grid_size, ok)
    /\ maxReq' = IF r.ret = NULL \/ r.k.fft_temp_buffer = NULL THEN maxReq
                 ELSE ReqOf2d(maxReq, grid_size, grid_size)
    /\ data' = <<>>

CalculatePsf(grid_size, okset, ok) ==
    PsfDone(calculate_psf_wasm(Caches, grid_size, okset, ok),
            "calculate_psf_wasm", grid_size, ok)

CalculatePsfGrid(grid_size, okset, ok) ==
    PsfDone(calculate_psf_grid_wasm(Caches, grid_size, okset, ok),
            "calculate_psf_grid_wasm", grid_size, ok)

\* the caller hands the pointer of the last PSF call to free_psf_result
FreePsfResult ==
    /\ ret \in {NULL, ALLOC}
    /\ last.op \in {"calculate_psf_wasm", "calculate_psf_grid_wasm"}
    /\ heap' = free_psf_result(heap, ret)
    /\ ret' = "RELEASED"
    /\ last' = Call("free_psf_result", 0, TRUE)
    /\ rt' = NoRt
    /\ UNCHANGED <<cacheVars, data, maxReq>>

Cleanup ==
    /\ SetCaches(cleanup_wasm_module(Caches))
    /\ last' = Call("cleanup_wasm_module", 0, TRUE)
    /\ rt' = NoRt
    /\ maxReq' = 0
    /\ data' = <<>> /\ heap' = NoHeap /\ ret' = NULL

----------------------------------------------------------------------------
(* The two 1D FFTs side by side: fft_1d_divide_conquer and fft_1d on the   *)
(* same array, from the same cache state.                                  *)

VARIABLE dc   \* [state, n, inverse, x, ok, out, ref]

DcIdle == [state |-> "idle", n |-> 0, inverse |-> FALSE, x |-> <<>>,
           ok |-> TRUE, out |-> <<>>, ref |-> <<>>]

DcLengths == {Pow2(e) : e \in 1..MaxLog2DC}

\* cache states a process can be in when the call is made: fresh, and after
\* a PSF call on a grid of side 2
DcCaches ==
    {NoCaches,
     calculate_psf_grid_wasm(NoCaches, 2, {"complex_amp", "psf_intensity"},
                             TRUE).k}

DcDone(f, g, ok) ==
    /\ SetCaches(f.k)
    /\ dc' = [dc EXCEPT !.state = "done", !.ok = ok,
                        !.out = f.data, !.ref = g.data]

\* fft_1d_divide_conquer(x, n, inverse); ref is what fft_1d gives for the
\* same arguments in the same cache state
DcCall(ok) ==
    /\ dc.state = "ready"
    /\ DcDone(fft_1d_divide_conquer(Caches, dc.x, dc.n, dc.inverse, ok),
              fft_1d(Caches, dc.x, dc.n, dc.inverse), ok)
    /\ UNCHANGED callVars

----------------------------------------------------------------------------
(* calculate_encircled_energy (psf-wasm.c:581-609).  Intensities are       *)
(* integers; a radius is given in half pixels (h stands for h/2); an       *)
(* output is the quotient encircled / total_energy as IEEE division gives  *)
(* it: a fraction, or NaN for 0/0, or Inf for x/0.                         *)

VARIABLE ee   \* [state, size, psf, radii, out]

\* the largest grid side and the largest radius (in half pixels) tried
MaxEESize == 3
MaxHalfRadius == 5

EeIdle == [state |-> "idle", size |-> 0, psf |-> <<>>, radii |-> <<>>,
           out |-> <<>>]

\* a / b in IEEE arithmetic, for a >= 0 and b >= 0
FDiv(a, b) ==
    IF b # 0 THEN [kind |-> "num", num |-> a, den |-> b]
    ELSE IF a = 0 THEN [kind |-> "nan", num |-> 0, den |-> 0]
    ELSE [kind |-> "inf", num |-> a, den |-> 0]

RECURSIVE SumTo(_, _)
SumTo(f, n) == IF n <= 0 THEN 0 ELSE f[n - 1] + SumTo(f, n - 1)

\* sqrt(dx*dx + dy*dy) <= radius, for the radius h/2
Within(dx, dy, h) == h >= 0 /\ 4 * (dx * dx + dy * dy) <= h * h

calculate_encircled_energy(psf, size, radii, radii_count) ==
    LET center == size \div 2
        total_energy == SumTo(psf, size * size)
        inside(h) == [q \in 0..(size * size - 1) |->
                        IF Within((q \div size) - center,
                                  (q % size) - center, h)
                        THEN psf[q] ELSE 0]
        encircled(h) == SumTo(inside(h), size * size)
    IN  [r \in 1..radii_count |-> FDiv(encircled(radii[r]), total_energy)]

\* the intensity arrays tried: all zero, all one, a ramp, single pixels
EePsfs(size) ==
    LET Q == 0..(size * size - 1)
    IN  {[q \in Q |-> 0], [q \in Q |-> 1], [q \in Q |-> q % 3]}
        \cup {[q \in Q |-> IF q = p THEN 2 ELSE 0] : p \in Q}

\* the strictly increasing radius lists of length 1 and 2
EeRadii ==
    {<<h>> : h \in 0..MaxHalfRadius}
    \cup {p \in (0..MaxHalfRadius) \X (0..MaxHalfRadius) : p[1] < p[2]}

EeCall ==
    /\ ee.state = "ready"
    /\ ee' = [ee EXCEPT !.state = "done",
                        !.out = calculate_encircled_energy(
                                    ee.psf, ee.size, ee.radii, Len(ee.radii))]

----------------------------------------------------------------------------
(* The numbers of ray-tracing-wasm.c.  A double is modelled by a fixed-    *)
(* point value: a finite number is an integer count of 1e-6 (the smallest  *)
(* constant the solver uses as a seed), of magnitude below 1000; a result  *)
(* beyond that overflows to an infinity, and NaN arises and propagates by  *)
(* the IEEE rules (Inf - Inf, 0 * Inf, 0 / 0, Inf / Inf, sqrt of a         *)
(* negative; every comparison with NaN false).  Products, quotients and    *)
(* roots round toward zero.  Zero carries no sign.                         *)

Limb == 10 ^ 3
Unit == Limb * Limb
MaxMag == Limb * Unit

Fin(v) == [k |-> "fin", v |-> v]
NaN == [k |-> "nan", v |-> 0]
Inf(s) == [k |-> "inf", v |-> s]
Zero == Fin(0)
One == Fin(Unit)
Two == Fin(2 * Unit)
Four == Fin(4 * Unit)
MinusOne == Fin(-Unit)

Sgn(v) == IF v > 0 THEN 1 ELSE IF v < 0 THEN -1 ELSE 0
Mag(v) == IF v < 0 THEN -v ELSE v
Range(v) ==
    IF v >= MaxMag THEN Inf(1) ELSE IF v <= -MaxMag THEN Inf(-1) ELSE Fin(v)

isfinite(a) == a.k = "fin"
Key(a) == IF a.k = "inf" THEN a.v * MaxMag ELSE a.v
Ordered(a, b) == a.k # "nan" /\ b.k # "nan"
DLt(a, b) == Ordered(a, b) /\ Key(a) < Key(b)
DGt(a, b) == Ordered(a, b) /\ Key(a) > Key(b)
DLe(a, b) == Ordered(a, b) /\ Key(a) <= Key(b)
DGe(a, b) == Ordered(a, b) /\ Key(a) >= Key(b)
DEq(a, b) == Ordered(a, b) /\ Key(a) = Key(b)
DNe(a, b) == ~DEq(a, b)

DNeg(a) == [a EXCEPT !.v = -a.v]
DAbs(a) == [a EXCEPT !.v = Mag(a.v)]

DAdd(a, b) ==
    IF a.k = "nan" \/ b.k = "nan" THEN NaN
    ELSE IF a.k = "inf" THEN (IF b.k = "inf" /\ b.v # a.v THEN NaN ELSE a)
    ELSE IF b.k = "inf" THEN b
    ELSE Range(a.v + b.v)

DSub(a, b) == DAdd(a, DNeg(b))

\* floor(a * b / Unit) for 0 <= a, b < MaxMag, capped at MaxMag; the
\* product is formed limb by limb so that no step leaves 32 bits
MulMag(a, b) ==
    LET a2 == a \div Unit
        a1 == (a \div Limb) % Limb
        a0 == a % Limb
        b2 == b \div Unit
        b1 == (b \div Limb) % Limb
        b0 == b % Limb
        P2 == a2 * b2
        P1 == a2 * b1 + a1 * b2
        P0 == a2 * b0 + a1 * b1 + a0 * b2
        Fr == ((a1 * b0 + a0 * b1) * Limb + a0 * b0) \div Unit
        low == P0 + Fr
        K == P2 * Limb + P1 + (low \div Limb)
    IN  IF K >= Unit THEN MaxMag ELSE K * Limb + (low % Limb)

DMul(a, b) ==
    IF a.k = "nan" \/ b.k = "nan" THEN NaN
    ELSE IF a.k = "inf" \/ b.k = "inf"
         THEN (IF a.v = 0 \/ b.v = 0 THEN NaN ELSE Inf(Sgn(a.v) * Sgn(b.v)))
    ELSE Range(Sgn(a.v) * Sgn(b.v) * MulMag(Mag(a.v), Mag(b.v)))

\* Quotient and remainder by b of a number x, kept as x = q * b + r; the
\* quotient is capped at MaxMag.
Cap(q) == IF q > MaxMag THEN MaxMag ELSE q
QRPlus(s, t, b) ==
    [q |-> Cap(s.q + t.q + (IF s.r + t.r >= b THEN 1 ELSE 0)),
     r |-> (s.r + t.r) % b]
QRTen(s, b) ==
    LET s2 == QRPlus(s, s, b)
        s4 == QRPlus(s2, s2, b)
        s8 == QRPlus(s4, s4, b)
    IN  QRPlus(s8, s2, b)

\* ten times over, digits times; a quotient at the cap stays there
RECURSIVE QRTens(_, _, _)
QRTens(s, b, digits) ==
    IF digits = 0 \/ s.q = MaxMag THEN s
    ELSE QRTens(QRTen(s, b), b, digits - 1)

\* floor(a * Unit / b) for 0 <= a < MaxMag, 0 < b < MaxMag, capped
DivMag(a, b) == QRTens([q |-> a \div b, r |-> a % b], b, 6).q

DDiv(a, b) ==
    IF a.k = "nan" \/ b.k = "nan" THEN NaN
    ELSE IF a.k = "inf"
         THEN (IF b.k = "inf" THEN NaN
               ELSE Inf(a.v * (IF b.v < 0 THEN -1 ELSE 1)))
    ELSE IF b.k = "inf" THEN Zero
    ELSE IF b.v = 0 THEN (IF a.v = 0 THEN NaN ELSE Inf(Sgn(a.v)))
    ELSE Range(Sgn(a.v) * Sgn(b.v) * DivMag(Mag(a.v), Mag(b.v)))

\* y * y <= v * Unit, without leaving 32 bits
SqLe(y, v) ==
    LET yh == y \div Limb
        yl == y % Limb
        m == 2 * yh * yl
        low == (m % Limb) * Limb + yl * yl
        hi == yh * yh + (m \div Limb) + (low \div Unit)
    IN  hi < v \/ (hi = v /\ low % Unit = 0)

\* The digit of weight s of the root: the largest y = lo + i * s, i < 32,
\* below 31623 * Limb with y * y <= v * Unit, where lo holds the digits of
\* greater weight.
SqrtDigit(lo, s, v) ==
    CHOOSE y \in {lo + i * s : i \in 0..31} :
        /\ y < 31623 * Limb
        /\ SqLe(y, v)
        /\ y + s >= 31623 * Limb \/ ~SqLe(y + s, v)

\* floor(sqrt(v * Unit)) for 0 <= v < MaxMag, five digits of base 32
SqrtMag(v) ==
    SqrtDigit(SqrtDigit(SqrtDigit(SqrtDigit(SqrtDigit(0, 1048576, v),
                                            32768, v), 1024, v), 32, v), 1, v)

DSqrt(a) ==
    IF a.k = "nan" THEN NaN
    ELSE IF a.k = "inf" THEN (IF a.v > 0 THEN a ELSE NaN)
    ELSE IF a.v < 0 THEN NaN
    ELSE Fin(SqrtMag(a.v))

----------------------------------------------------------------------------
(* aspheric_sag_rt10 and intersect_aspheric_rt10 (ray-tracing-wasm.c).     *)

\* asphere += c * r_power over coefs[i .. 9]
RECURSIVE PolyLoop(_, _, _, _, _)
PolyLoop(coefs, i, r_power, r2, asphere) ==
    IF i > 10 THEN asphere
    ELSE LET c == coefs[i]
         IN  PolyLoop(coefs, i + 1, DMul(r_power, r2), r2,
                      IF DNe(c, Zero) THEN DAdd(asphere, DMul(c, r_power))
                      ELSE asphere)

rt10_asphere_poly(r, r2, coefs, modeOdd) ==
    IF modeOdd THEN PolyLoop(coefs, 1, DMul(r2, r), r2, Zero)
    ELSE PolyLoop(coefs, 1, r2, r2, Zero)

\* dz += c * p * r_pow over coefs[i .. 9], p = 2i + odd for the 1-based i
RECURSIVE DzdrLoop(_, _, _, _, _, _)
DzdrLoop(coefs, i, r_pow, r2, odd, dz) ==
    IF i > 10 THEN dz
    ELSE LET c == coefs[i]
             p == Fin((2 * i + odd) * Unit)
         IN  DzdrLoop(coefs, i + 1, DMul(r_pow, r2), r2, odd,
                      IF DNe(c, Zero) THEN DAdd(dz, DMul(DMul(c, p), r_pow))
                      ELSE dz)

rt10_asphere_dzdr(r, r2, coefs, modeOdd) ==
    IF DEq(r, Zero) THEN Zero
    ELSE IF modeOdd THEN DzdrLoop(coefs, 1, r2, r2, 1, Zero)
    ELSE DzdrLoop(coefs, 1, r, r2, 0, Zero)

\* (each local of a C function is the parameter of the operator that
\* continues from its assignment, here and below)
SagChecked(out) == IF isfinite(out) THEN out ELSE Zero

SagWithSqrtTerm(r, r2, sqrtTerm, radius, coefs, modeOdd) ==
    IF ~isfinite(sqrtTerm) \/ DLt(sqrtTerm, Zero) THEN Zero
    ELSE SagChecked(DAdd(DDiv(r2, DMul(radius,
                                       DAdd(One, DSqrt(sqrtTerm)))),
                         rt10_asphere_poly(r, r2, coefs, modeOdd)))

SagWithR2(r, r2, radius, conic, coefs, modeOdd) ==
    SagWithSqrtTerm(r, r2,
                    DSub(One, DDiv(DMul(DAdd(One, conic), r2),
                                   DMul(radius, radius))),
                    radius, coefs, modeOdd)

aspheric_sag_rt10(r, radius, conic, coefs, modeOdd) ==
    IF DEq(radius, Zero) THEN Zero
    ELSE SagWithR2(r, DMul(r, r), radius, conic, coefs, modeOdd)

\* The solver's thresholds.  None is a multiple of 1e-6; each is replaced
\* by the multiple that compares alike with every multiple of 1e-6: the
\* one below it where the code tests x > EPS, the one above it where the
\* code tests |x| < EPS.
EPS_T == Fin(0)
EPS_DIRZ == Fin(0)
EPS_R == Fin(0)
EPS_DFDT == Fin(1)
DefaultTol == Fin(1)
DefaultMaxIter == 20
MaxGuesses == 10

Seed(t, kind) == [t |-> t, kind |-> kind]

\* guesses[gCount++] = t  when cond
Push(guesses, cond, t, kind) ==
    IF cond THEN Append(guesses, Seed(t, kind)) ELSE guesses

\* 1) the sphere-approximation candidates
SphereSorted(g) ==
    IF Len(g) >= 2 /\ DGt(g[1].t, g[2].t) THEN <<g[2], g[1]>> ELSE g

SphereRoots(t1, t2) ==
    SphereSorted(Push(Push(<<>>, DGt(t1, EPS_T), t1, "sphere"),
                      DGt(t2, EPS_T), t2, "sphere"))

SphereWithSqrt(A, B, sD) ==
    SphereRoots(DDiv(DSub(DNeg(B), sD), DMul(Two, A)),
                DDiv(DAdd(DNeg(B), sD), DMul(Two, A)))

SphereWithD(A, B, D) ==
    IF DGe(D, Zero) THEN SphereWithSqrt(A, B, DSqrt(D)) ELSE <<>>

SphereWithABC(A, B, C) ==
    SphereWithD(A, B, DSub(DMul(B, B), DMul(DMul(Four, A), C)))

\* ozc is oz - cz
SphereWithA(in, A, ozc) ==
    IF DNe(A, Zero)
    THEN SphereWithABC(A,
                       DMul(Two, DAdd(DAdd(DMul(in.ox, in.dx),
                                           DMul(in.oy, in.dy)),
                                      DMul(ozc, in.dz))),
                       DSub(DAdd(DAdd(DMul(in.ox, in.ox),
                                      DMul(in.oy, in.oy)),
                                 DMul(ozc, ozc)),
                            DMul(in.radius, in.radius)))
    ELSE <<>>

SphereGuesses(in) ==
    IF isfinite(in.radius) /\ DNe(in.radius, Zero)
    THEN SphereWithA(in,
                     DAdd(DAdd(DMul(in.dx, in.dx), DMul(in.dy, in.dy)),
                          DMul(in.dz, in.dz)),
                     DSub(in.oz, in.radius))
    ELSE <<>>

\* 2) the plane z = 0
PlaneWithTp(guesses, tp) ==
    Push(guesses, DGt(tp, EPS_T) /\ Len(guesses) < MaxGuesses, tp, "plane")

PlaneGuess(in, guesses) ==
    IF DGt(DAbs(in.dz), EPS_DIRZ)
    THEN PlaneWithTp(guesses, DDiv(DNeg(in.oz), in.dz))
    ELSE guesses

\* 3) the two guesses that aim for the edge
EdgeWithTs(guesses, ts, kind) == Push(guesses, DGt(ts, EPS_T), ts, kind)

EdgeAim(guesses, targetR, curR, dirR, kind) ==
    IF DGt(targetR, curR) /\ Len(guesses) < MaxGuesses
    THEN EdgeWithTs(guesses, DDiv(DSub(targetR, curR), dirR), kind)
    ELSE guesses

EdgeWithR(in, guesses, curR, dirR) ==
    IF DGt(dirR, EPS_R)
    THEN EdgeAim(EdgeAim(guesses, DMul(in.semidia, Fin(800000)),
                         curR, dirR, "edge08"),
                 DMul(in.semidia, One), curR, dirR, "edge10")
    ELSE guesses

SemidiaGuesses(in, guesses) ==
    IF isfinite(in.semidia) /\ DGt(in.semidia, Zero)
       /\ Len(guesses) < MaxGuesses
    THEN EdgeWithR(in, guesses,
                   DSqrt(DAdd(DMul(in.ox, in.ox), DMul(in.oy, in.oy))),
                   DSqrt(DAdd(DMul(in.dx, in.dx), DMul(in.dy, in.dy))))
    ELSE guesses

\* 4) the fallback ladder
Ladder == <<Seed(Fin(1), "ladder"), Seed(Fin(100), "ladder"),
            Seed(Fin(10000), "ladder")>>

OrLadder(guesses) == IF Len(guesses) = 0 THEN Ladder ELSE guesses

AssembleGuesses_ladder(in) ==
    SemidiaGuesses(in, PlaneGuess(in, SphereGuesses(in))) \o Ladder

AssembleGuesses(in) ==
    OrLadder(SemidiaGuesses(in, PlaneGuess(in, SphereGuesses(in))))

\* the aperture test applied to a converged point (lines 417-419)
OutsideAperture_never(in, r) == FALSE

OutsideAperture(in, r) ==
    isfinite(in.semidia) /\ DGt(in.semidia, Zero) /\ DGt(r, in.semidia)

\* dz/dr of the base conic term (lines 424-438)
DzdrSlope(r, r2, R, denom, sqrtDer) ==
    DDiv(DSub(DMul(DMul(Two, r), denom), DMul(DMul(r2, R), sqrtDer)),
         DMul(denom, denom))

DzdrWithSqrtTerm(in, r, r2, sqrtTerm) ==
    IF DGt(sqrtTerm, Zero)
    THEN DzdrSlope(r, r2, in.radius,
                   DMul(in.radius, DAdd(One, sqrtTerm)),
                   DDiv(DMul(DAdd(One, in.conic), r),
                        DMul(DMul(in.radius, in.radius), sqrtTerm)))
    ELSE Zero

DzdrWithTerm(in, r, r2, term) ==
    IF DLt(term, One) THEN DzdrWithSqrtTerm(in, r, r2, DSqrt(DSub(One, term)))
    ELSE DDiv(One, in.radius)

DzdrBase(in, r, r2) ==
    IF isfinite(in.radius) /\ DNe(in.radius, Zero) /\ DGt(r, Zero)
    THEN DzdrWithTerm(in, r, r2,
                      DDiv(DMul(DAdd(One, in.conic), r2),
                           DMul(in.radius, in.radius)))
    ELSE Zero

\* dr/dt (lines 446-449)
Drdt(in, x, y, r) ==
    IF DGt(r, EPS_R) THEN DDiv(DAdd(DMul(x, in.dx), DMul(y, in.dy)), r)
    ELSE Zero

\* One pass of the Newton loop's body from t: "return" with a value,
\* "break" with the reason, or "next" with the new t.
\* after t -= step
NewtonMoved(tn) ==
    IF ~DGt(tn, Zero)
    THEN [kind |-> "break", why |-> "nonpositive", t |-> tn]
    ELSE [kind |-> "next", why |-> "step", t |-> tn]

\* after step = F / dFdt
NewtonStepped(t, step) ==
    IF ~isfinite(step)
    THEN [kind |-> "break", why |-> "nonfinite", t |-> t]
    ELSE NewtonMoved(DSub(t, step))

\* after dFdt = dz - dzdr * drdt
NewtonSloped(t, F, dFdt) ==
    IF ~isfinite(dFdt) \/ DLt(DAbs(dFdt), EPS_DFDT)
    THEN [kind |-> "break", why |-> "degenerate", t |-> t]
    ELSE NewtonStepped(t, DDiv(F, dFdt))

\* after F = z - sag
NewtonTested(in, tol, t, x, y, r2, r, F) ==
    IF DLt(DAbs(F), tol)
    THEN IF OutsideAperture(in, r)
         THEN [kind |-> "break", why |-> "outside", t |-> t]
         ELSE [kind |-> "return", why |-> "hit",
               t |-> IF DGt(t, Zero) THEN t ELSE MinusOne]
    ELSE NewtonSloped(t, F,
                      DSub(in.dz,
                           DMul(DAdd(DzdrBase(in, r, r2),
                                     rt10_asphere_dzdr(r, r2, in.coefs,
                                                       in.modeOdd)),
                                Drdt(in, x, y, r))))

\* after r = sqrt(r2)
NewtonAtRadius(in, tol, t, x, y, z, r2, r) ==
    NewtonTested(in, tol, t, x, y, r2, r,
                 DSub(z, aspheric_sag_rt10(r, in.radius, in.conic, in.coefs,
                                           in.modeOdd)))

\* after x, y, z
NewtonAtPoint(in, tol, t, x, y, z, r2) ==
    NewtonAtRadius(in, tol, t, x, y, z, r2, DSqrt(r2))

NewtonXYZ(in, tol, t, x, y, z) ==
    NewtonAtPoint(in, tol, t, x, y, z, DAdd(DMul(x, x), DMul(y, y)))

NewtonBody(in, tol, t) ==
    NewtonXYZ(in, tol, t,
              DAdd(in.ox, DMul(in.dx, t)),
              DAdd(in.oy, DMul(in.dy, t)),
              DAdd(in.oz, DMul(in.dz, t)))

VARIABLE ray   \* one call of intersect_aspheric_rt10, step by step

RayIdle == [pc |-> "idle", in |-> <<>>, maxIter |-> 0, tol |-> Zero,
            guesses |-> <<>>, seeded |-> FALSE, gi |-> 0, i |-> 0,
            t |-> Zero, sagCalls |-> 0, ended |-> <<>>, result |-> Zero]

FiniteRay_direction(in) ==
    isfinite(in.dx) /\ isfinite(in.dy) /\ isfinite(in.dz)

FiniteRay(in) ==
    /\ isfinite(in.dx) /\ isfinite(in.dy) /\ isfinite(in.dz)
    /\ isfinite(in.ox) /\ isfinite(in.oy) /\ isfinite(in.oz)

\* Lines 328-397: the finite checks, the defaults and the guesses.
RayEnter ==
    /\ ray.pc = "ready"
    /\ IF ~FiniteRay(ray.in)
       THEN ray' = [ray EXCEPT !.pc = "done", !.result = MinusOne]
       ELSE ray' = [ray EXCEPT
                !.pc = "seed",
                !.maxIter = IF ~(ray.in.maxIter > 0) THEN DefaultMaxIter
                            ELSE ray.in.maxIter,
                !.tol = IF ~DGt(ray.in.tol, Zero) THEN DefaultTol
                        ELSE ray.in.tol,
                !.guesses = AssembleGuesses(ray.in),
                !.seeded = TRUE,
                !.gi = 0]

\* Lines 400-402 and 460: the head of the loop over the guesses, the
\* positivity test of a guess, and the return after the last guess.
RaySeed ==
    /\ ray.pc = "seed"
    /\ IF ~(ray.gi < Len(ray.guesses))
       THEN ray' = [ray EXCEPT !.pc = "done", !.result = MinusOne]
       ELSE LET t == ray.guesses[ray.gi + 1].t
            IN  IF ~DGt(t, Zero) \/ ~isfinite(t)
                THEN ray' = [ray EXCEPT !.gi = @ + 1,
                                        !.ended = Append(@, "skipped")]
                ELSE ray' = [ray EXCEPT !.pc = "iter", !.t = t, !.i = 0]

\* what the outcome b of one pass of the body does to the call
RayAfter(b) ==
    IF b.kind = "return"
    THEN ray' = [ray EXCEPT !.pc = "done", !.result = b.t,
                            !.sagCalls = @ + 1]
    ELSE IF b.kind = "break"
    THEN ray' = [ray EXCEPT !.pc = "seed", !.gi = @ + 1,
                            !.sagCalls = @ + 1,
                            !.ended = Append(@, b.why)]
    ELSE ray' = [ray EXCEPT !.t = b.t, !.i = @ + 1, !.sagCalls = @ + 1]

\* a Newton loop with no iteration cap
RayNewton_nolimit ==
    /\ ray.pc = "iter"
    /\ RayAfter(NewtonBody(ray.in, ray.tol, ray.t))

\* Lines 404-457: one iteration of the Newton loop, or its end after
\* maxIter iterations.
RayNewton ==
    /\ ray.pc = "iter"
    /\ IF ~(ray.i < ray.maxIter)
       THEN ray' = [ray EXCEPT !.pc = "seed", !.gi = @ + 1,
                               !.ended = Append(@, "exhausted")]
       ELSE RayAfter(NewtonBody(ray.in, ray.tol, ray.t))

\* The rays, surfaces and solver settings tried (1.0 is Unit).
RayNumbers(vs) == {Fin(v) : v \in vs}
NoCoefs == [j \in 1..10 |-> Zero]
RayOrigins ==
    {<<Fin(x), Zero, Fin(z)>> :
        x \in {0, Unit}, z \in {-Unit, 0, Unit}}
    \cup {<<Fin(-3 * Unit), Zero, Fin(1500000)>>,
          <<NaN, Zero, MinusOne>>, <<Zero, Zero, Inf(1)>>}
RayDirections ==
    {<<Zero, Zero, One>>, <<Zero, Zero, MinusOne>>, <<One, Zero, Zero>>,
     <<Fin(600000), Zero, Fin(800000)>>, <<One, Zero, Fin(1)>>,
     <<One, Zero, Fin(-400000)>>,
     <<Zero, NaN, One>>}
RaySemidias == {NaN, Inf(1), MinusOne, Zero, Fin(500000), One, Fin(3 * Unit)}
RayRadii == {Zero, Two, Inf(1)}
RayShapes ==
    {<<NoCoefs, FALSE>>, <<[NoCoefs EXCEPT ![1] = Fin(100000)], FALSE>>,
     <<[NoCoefs EXCEPT ![1] = Fin(100000)], TRUE>>}
RayMaxIters == {0, 1}
RayTols == {Zero, Fin(1000)}

RayInputs ==
    {[ox |-> o[1], oy |-> o[2], oz |-> o[3],
      dx |-> d[1], dy |-> d[2], dz |-> d[3],
      semidia |-> s, radius |-> rad, conic |-> Zero, coefs |-> sh[1],
      modeOdd |-> sh[2], maxIter |-> mi, tol |-> tl] :
        o \in RayOrigins, d \in RayDirections, s \in RaySemidias,
        rad \in RayRadii, sh \in RayShapes,
        mi \in RayMaxIters, tl \in RayTols}

----------------------------------------------------------------------------
(* fft_shift (psf-wasm.c:82-98) on a size x size array of intensities,     *)
(* row-major on 0..size*size-1.                                            *)

VARIABLE sh   \* [state, size, orig, mid, data]

\* the largest grid side fft_shift is run on
MaxShiftSize == 4

ShIdle == [state |-> "idle", size |-> 0, orig |-> <<>>, mid |-> <<>>,
           data |-> <<>>]

\* a loop body that copies the far quadrant over the near one and loses the
\* near one (no temp)
ShiftBody_copy(arr, size, half, i, j) ==
    [arr EXCEPT ![i * size + j] = arr[(i + half) * size + (j + half)],
                ![i * size + (j + half)] = arr[(i + half) * size + j]]

\* the body of the inner loop: the two exchanges through temp
ShiftBody(arr, size, half, i, j) ==
    Swap(Swap(arr, i * size + j, (i + half) * size + (j + half)),
         i * size + (j + half), (i + half) * size + j)

\* the two loops, from pass m on: pass m has i = m / half, j = m % half
RECURSIVE ShiftLoop(_, _, _, _)
ShiftLoop(arr, size, half, m) ==
    IF m >= half * half THEN arr
    ELSE ShiftLoop(ShiftBody(arr, size, half, m \div half, m % half),
                   size, half, m + 1)

fft_shift(arr, size) == ShiftLoop(arr, size, size \div 2, 0)

\* the arrays tried
ShiftArrays(size) ==
    {[q \in 0..(size * size - 1) |-> (a * q + b) % m] :
        a \in 1..2, b \in 0..1, m \in {2, 3, 5, size * size + 1}}

\* fft_shift on the array the caller holds: the first call, then the second
ShiftCall ==
    /\ sh.state \in {"ready", "once"}
    /\ sh' = IF sh.state = "ready"
             THEN [sh EXCEPT !.state = "once",
                             !.mid = fft_shift(sh.data, sh.size),
                             !.data = fft_shift(sh.data, sh.size)]
             ELSE [sh EXCEPT !.state = "twice",
                             !.data = fft_shift(sh.data, sh.size)]

----------------------------------------------------------------------------
(* fast_sin / fast_cos (psf-wasm.c:150-181) on every argument.  An         *)
(* argument is a finite angle (a count of 1/U of a turn, of either sign),  *)
(* a negative number too small to change 2 pi when added to it ("tiny"),   *)
(* NaN or an infinity.  A value returned is named by the angle whose sine  *)
(* (cosine) it is, or is NaN: 0.0 is the sine of angle 0, 1.0 its cosine.  *)

TFin(a) == [kind |-> "fin", a |-> a]
TTiny == [kind |-> "tiny", a |-> 0]
TNaN == [kind |-> "nan", a |-> 0]
TInf(s) == [kind |-> "inf", a |-> s]

VAng(a) == [kind |-> "ang", a |-> a % U]
VNaN == [kind |-> "nan", a |-> 0]

\* isfinite(x)
TrigFinite(x) == x.kind \in {"fin", "tiny"}

\* x = fmod(x, 2 pi); if (x < 0) x += 2 pi: in 1/U of a turn.  The sum of a
\* tiny negative x and 2 pi rounds to 2 pi.
Reduced(x) ==
    IF x.kind = "tiny" THEN U
    ELSE IF Fmod(x.a, U) < 0 THEN Fmod(x.a, U) + U ELSE Fmod(x.a, U)

\* index = (int)((x / 2 pi) * trig_table_size) without the clamp
RawIndex(x, size) == (Reduced(x) * size) \div U

\* an index left as computed
TableIndex_noclamp(x, size) == RawIndex(x, size)

\* if (index >= trig_table_size) index = trig_table_size - 1
TableIndex(x, size) ==
    IF RawIndex(x, size) >= size THEN size - 1 ELSE RawIndex(x, size)

\* libm's sin(x) / cos(x): NaN for a NaN or an infinity (a tiny x is the
\* angle 0 to the model's resolution)
LibmTrig(x) == IF TrigFinite(x) THEN VAng(x.a) ELSE VNaN

\* sin_table[index] / cos_table[index]: entry i is sin/cos of 2 pi i / size
TableEntry(index, size) == VAng((index * U) \div size)

\* fast_sin(x)
FastSin(k, x) ==
    IF k.sin_table = NULL THEN LibmTrig(x)
    ELSE IF ~TrigFinite(x) THEN VAng(0)
    ELSE TableEntry(TableIndex(x, k.trig_table_size), k.trig_table_size)

\* fast_cos(x)
FastCos(k, x) ==
    IF k.cos_table = NULL THEN LibmTrig(x)
    ELSE IF ~TrigFinite(x) THEN VAng(0)
    ELSE TableEntry(TableIndex(x, k.trig_table_size), k.trig_table_size)

VARIABLE tg   \* the reads of the last call: [state, x, sin, cos, reads,
              \* trigReads]

TgIdle == [state |-> "idle", x |-> TFin(0), sin |-> VAng(0), cos |-> VAng(0),
           reads |-> {}, trigReads |-> {}]

\* the indices fft_1d reads from the twiddle table: every stage len, every
\* position j (the same in every group i)
TwiddleReads(n, inverse) ==
    UNION {{TwiddleIdx(n, Pow2(e), j, inverse) :
              j \in 0..((Pow2(e) \div 2) - 1)} : e \in 1..Log2(n)}

\* the indices init_twiddle_table reads from the sin/cos tables through
\* fast_cos / fast_sin, when fft_1d calls it and the tables are present
TwiddleTrigReads(k, n) ==
    IF n > 1 /\ (k.twiddle_table = <<>> \/ k.twiddle_table_size < n)
       /\ k.sin_table # NULL
    THEN {TableIndex(TFin(-((i * U) \div n)), k.trig_table_size) :
            i \in 0..(n - 1)}
    ELSE {}

\* the arguments tried
TrigArgs ==
    {TFin(a) : a \in {0, 1, U \div 8, U \div 4, U - 1, U, U + 3, 3 * U + 5,
                      -1, -(U \div 4), -U, -(U + 1), -(3 * U) - 7}}
    \cup {TTiny, TNaN, TInf(1), TInf(-1)}

\* a call of fast_sin(x) and of fast_cos(x) in the present cache state
TrigLookup(x) ==
    /\ tg' = [state |-> "trig", x |-> x,
              sin |-> FastSin(Caches, x), cos |-> FastCos(Caches, x),
              reads |-> {},
              trigReads |-> IF sin_table # NULL /\ TrigFinite(x)
                            THEN {TableIndex(x, trig_table_size)} ELSE {}]
    /\ UNCHANGED <<cacheVars, callVars>>

\* fft_1d with its reads recorded
TrigFft(n, inverse) ==
    /\ Fft1dCall(n, inverse, Arr(Imp(n, 0, COne)))
    /\ tg' = [TgIdle EXCEPT !.state = "fft",
                            !.reads = IF n > 1 THEN TwiddleReads(n, inverse)
                                      ELSE {},
                            !.trigReads = TwiddleTrigReads(Caches, n)]

\* a PSF call that builds or keeps the sin/cos tables
TrigPsf(grid_size) ==
    /\ CalculatePsfGrid(grid_size, {"complex_amp", "psf_intensity"}, TRUE)
    /\ tg' = [TgIdle EXCEPT !.state = "psf"]

TrigCleanup == Cleanup /\ tg' = [TgIdle EXCEPT !.state = "cleanup"]

----------------------------------------------------------------------------
(* The complex pupil of the two PSF entry forms (psf-wasm.c:461-486 and    *)
(* 755-768).  An OPD is given in waves, as an angle: opd / wavelength in   *)
(* 1/U of a turn, or NaN; an amplitude and a mask value are integers; a    *)
(* null array is <<>>.  A cell of the field is an exact complex number, or *)
(* CNaN when a part of it is NaN.                                          *)

VARIABLE pu   \* [state, form, size, opd, amplitude, mask, field]

PuIdle == [state |-> "idle", form |-> "ray", size |-> 0, opd |-> <<>>,
           amplitude |-> <<>>, mask |-> <<>>, field |-> <<>>]

CNaN == [c |-> <<>>, e |-> -1]

\* (sa * a + sb * b) / 2
HalfSum(a, sa, b, sb) == CScale(CLin(a, sa, b, sb), 2)

\* (amp * c, amp * s) for a cosine c and a sine s, each given by its angle:
\* cos x = (z^x + z^-x) / 2 and i sin x = (z^x - z^-x) / 2
Phasor(amp, c, s) ==
    IF c.kind = "nan" \/ s.kind = "nan" THEN CNaN
    ELSE CLin(HalfSum(Root(c.a), amp, Root(-c.a), amp), 1,
              HalfSum(Root(s.a), amp, Root(-s.a), -amp), 1)

\* phase = k * opd for k = sign * 2 pi / wavelength
PhaseOf(sign, opd) ==
    IF opd.kind = "fin" THEN TFin(sign * opd.a) ELSE opd

\* output[i] = (amp * fast_cos(phase), amp * fast_sin(phase))
PupilCell(k, amp, phase) == Phasor(amp, FastCos(k, phase), FastSin(k, phase))

\* calculate_complex_amplitude: the sin/cos tables ensured, then every cell
CcaCells(k1, opd, amplitude, pupil_mask, total_size) ==
    [field |-> Arr([i \in 0..(total_size - 1) |->
                      IF pupil_mask[i] # 0
                      THEN PupilCell(k1, amplitude[i], PhaseOf(1, opd[i]))
                      ELSE CZero]),
     k |-> k1]

calculate_complex_amplitude(k, opd, amplitude, pupil_mask, size) ==
    CcaCells(EnsureTrig(k, size * size), opd, amplitude, pupil_mask,
             size * size)

\* a pre-gridded pupil built with the ray form's k = +2 pi / wavelength
GridPupil_plus(k, grid_opd, amplitude, pupil_mask, total_size) ==
    [field |-> Arr([i \in 0..(total_size - 1) |->
                      IF pupil_mask # <<>> /\ pupil_mask[i] # 0
                      THEN PupilCell(k,
                               IF amplitude # <<>> THEN amplitude[i] ELSE 1,
                               PhaseOf(1, IF grid_opd # <<>> THEN grid_opd[i]
                                          ELSE TFin(0)))
                      ELSE CZero]),
     k |-> k]

\* step 1 of calculate_psf_grid_wasm (k = -2 pi / wavelength)
GridPupil(k, grid_opd, amplitude, pupil_mask, total_size) ==
    [field |-> Arr([i \in 0..(total_size - 1) |->
                      IF pupil_mask # <<>> /\ pupil_mask[i] # 0
                      THEN PupilCell(k,
                               IF amplitude # <<>> THEN amplitude[i] ELSE 1,
                               PhaseOf(-1, IF grid_opd # <<>> THEN grid_opd[i]
                                           ELSE TFin(0)))
                      ELSE CZero]),
     k |-> k]

\* the cache states a process can be in when a PSF call starts: fresh, and
\* after a PSF call on each grid
PriorCaches ==
    {NoCaches}
    \cup {calculate_psf_grid_wasm(NoCaches, g,
                                  {"complex_amp", "psf_intensity"}, TRUE).k :
            g \in GridSizes}

\* the arrays tried, over total cells
PupilMasks(total) ==
    LET Q == 0..(total - 1)
    IN  {[q \in Q |-> 1], [q \in Q |-> q % 2], [q \in Q |-> 0],
         [q \in Q |-> 2 * ((q + 1) % 2)]}

PupilOpds(total) ==
    LET Q == 0..(total - 1)
    IN  {[q \in Q |-> TFin(q * (U \div 4))],
         [q \in Q |-> TFin(q * (U \div 16) + 1)],
         [q \in Q |-> TFin(-((q + 1) * (U \div 8)))],
         [q \in Q |-> IF q = 0 THEN TNaN ELSE TFin(U \div 2)]}

PupilAmplitudes(total) ==
    LET Q == 0..(total - 1)
    IN  {[q \in Q |-> 1], [q \in Q |-> (q + 2) % 3]}

\* amplitude[i] = 1.0 for every i (calculate_psf_wasm)
UniformAmplitude(total) == [q \in 0..(total - 1) |-> 1]

\* the pupil of the call: the ray form's through
\* calculate_complex_amplitude, the grid form's in place
PupilBuild ==
    /\ pu.state = "ready"
    /\ pu' = [pu EXCEPT
                !.state = "built",
                !.field =
                    IF pu.form = "ray"
                    THEN calculate_complex_amplitude(
                             Caches, pu.opd, pu.amplitude, pu.mask,
                             pu.size).field
                    ELSE GridPupil(Caches, pu.opd, pu.amplitude, pu.mask,
                                   pu.size * pu.size).field]
    /\ UNCHANGED <<cacheVars, callVars>>


----------------------------------------------------------------------------
(* interpolate_opd_grid (psf-wasm.c:499-554).  A coordinate is an integer  *)
(* count of 1e4; an opd is an integer.  A grid has 1 or 2^e + 1 cells a    *)
(* side, so that 1 / (grid_size - 1) and the cell coordinates are exact    *)
(* doubles; every length is kept times D = grid_size - 1 and every squared *)
(* length times D * D, which keeps the comparisons exact.                  *)

VARIABLE ig   \* [state, in, mask, opd]

\* the largest grid is 2^MaxLog2Interp + 1 cells a side
MaxLog2Interp == 1

IgIdle == [state |-> "idle", in |-> <<>>, mask |-> <<>>, opd |-> <<>>]

\* LARGE_NUMBER = 1e10, in units of (1e4)^2
LARGE_NUMBER == 100

IAbs(v) == IF v < 0 THEN -v ELSE v

\* max_radius = fmax(fabs(max_x), fabs(max_y))
MaxRadius(in) == Max(IAbs(in.max_x), IAbs(in.max_y))

\* D * grid_x and D * grid_y of row i and column j
GridX(in, i) == in.min_x * (in.grid_size - 1) + (in.max_x - in.min_x) * i
GridY(in, j) == in.min_y * (in.grid_size - 1) + (in.max_y - in.min_y) * j

\* D * D * dist_sq of ray k from the cell at (gx, gy) / D
DistSq(in, k, gx, gy) ==
    (in.rays[k].x * (in.grid_size - 1) - gx)
        * (in.rays[k].x * (in.grid_size - 1) - gx)
    + (in.rays[k].y * (in.grid_size - 1) - gy)
        * (in.rays[k].y * (in.grid_size - 1) - gy)

\* dist_sq < early_exit_threshold = 1e-8: between exact coordinates that
\* are multiples of 1e4 / D, a squared distance below 1e-8 is 0
EarlyExit(dist_sq) == dist_sq = 0

\* the loop over the rays from ray k on (1-based), with the running
\* minimum min_dist_sq (times D * D) and the opd held so far
RECURSIVE ScanRays(_, _, _, _, _, _)
ScanRays(in, gx, gy, k, min_dist_sq, interpolated_opd) ==
    IF k > Len(in.rays) THEN interpolated_opd
    ELSE IF DistSq(in, k, gx, gy) < min_dist_sq
    THEN IF EarlyExit(DistSq(in, k, gx, gy)) THEN in.rays[k].opd
         ELSE ScanRays(in, gx, gy, k + 1, DistSq(in, k, gx, gy),
                       in.rays[k].opd)
    ELSE ScanRays(in, gx, gy, k + 1, min_dist_sq, interpolated_opd)

\* radius_sq <= max_radius_sq; with grid_size = 1 the coordinates are
\* 0 * (1.0 / 0) = NaN and the comparison is false
InCircle(in, gx, gy) ==
    /\ in.grid_size > 1
    /\ gx * gx + gy * gy
         <= MaxRadius(in) * MaxRadius(in)
              * (in.grid_size - 1) * (in.grid_size - 1)

\* grid_opd[index] of a cell inside the circle
CellOpd(in, gx, gy) ==
    ScanRays(in, gx, gy, 1,
             LARGE_NUMBER * (in.grid_size - 1) * (in.grid_size - 1), 0)

interpolate_opd_grid(in) ==
    [mask |-> [q \in 0..(in.grid_size * in.grid_size - 1) |->
                 IF InCircle(in, GridX(in, q \div in.grid_size),
                             GridY(in, q % in.grid_size))
                 THEN 1 ELSE 0],
     opd |-> [q \in 0..(in.grid_size * in.grid_size - 1) |->
                 IF InCircle(in, GridX(in, q \div in.grid_size),
                             GridY(in, q % in.grid_size))
                 THEN CellOpd(in, GridX(in, q \div in.grid_size),
                              GridY(in, q % in.grid_size))
                 ELSE 0]]

\* the grids, coordinate ranges and ray sets tried
InterpGrids == {1} \cup {Pow2(e) + 1 : e \in 0..MaxLog2Interp}
InterpRanges ==
    {<<-2, 2, -2, 2>>, <<0, 4, 0, 4>>, <<-4, 2, -2, 2>>, <<-2, 2, -6, 1>>}
IRay(x, y, opd) == [x |-> x, y |-> y, opd |-> opd]
InterpRays ==
    {<<>>,
     <<IRay(0, 0, 5)>>,
     <<IRay(-2, -2, 1), IRay(2, 2, 2), IRay(0, 0, 3)>>,
     <<IRay(-2, 0, 1), IRay(2, 0, 2)>>,
     <<IRay(2, 2, 7), IRay(2, 2, 9), IRay(1, 1, 4)>>,
     <<IRay(3, 1, 8), IRay(0, -2, -3), IRay(-1, 2, 6), IRay(4, 4, 2)>>,
     <<IRay(40, 0, 6)>>,
     <<IRay(40, 0, 6), IRay(0, 40, 7)>>,
     <<IRay(9, 0, 6)>>,
     <<IRay(9, 0, 6), IRay(1, 1, 0)>>}

InterpCall ==
    /\ ig.state = "ready"
    /\ ig' = [ig EXCEPT !.state = "done",
                        !.mask = interpolate_opd_grid(ig.in).mask,
                        !.opd = interpolate_opd_grid(ig.in).opd]
    /\ UNCHANGED <<cacheVars, callVars>>

----------------------------------------------------------------------------
(* The caches when any malloc may fail (psf-wasm.c:113-145, 186-199,       *)
(* 323-329, 732-808, 836-854).  init_twiddle_table and                     *)
(* init_fast_trig_tables store the result of malloc and fill the table     *)
(* without testing it: a failed malloc leaves a null pointer beside a      *)
(* positive size, and the fill writes through the null pointer.  That      *)
(* write is undefined: the call either traps there or runs on (wasm        *)
(* linear memory has an address 0).  Only the pointers, the sizes and the  *)
(* null pointers used are followed; a twiddle entry is the pair of angles  *)
(* whose cosine and sine it holds.                                         *)

VARIABLE al   \* [state, nullUse]: "running" or "trapped"; the cache
              \* pointers an entry point has read or written while null

AlIdle == [state |-> "idle", nullUse |-> {}]

\* init_twiddle_table(max_size); ok: whether its malloc succeeds
init_twiddle_table_alloc(k, max_size, ok) ==
    [k EXCEPT !.twiddle_table_size = max_size,
              !.twiddle_table =
                  IF ok
                  THEN [i \in 0..(max_size - 1) |->
                          [re |-> fast_cos(k, -((i * U) \div max_size)),
                           im |-> fast_sin(k, -((i * U) \div max_size))]]
                  ELSE <<>>]

\* init_fast_trig_tables(max_size); oks, okc: whether the malloc of
\* sin_table, of cos_table succeeds
init_fast_trig_tables_alloc(k, max_size, oks, okc) ==
    [k EXCEPT !.trig_table_size = max_size * 4,
              !.sin_table = IF oks THEN ALLOC ELSE NULL,
              !.cos_table = IF okc THEN ALLOC ELSE NULL]

\* the null pointers the fill loop of init_fast_trig_tables writes through
TrigNullUse(k1) ==
    (IF k1.sin_table = NULL THEN {"sin_table"} ELSE {})
    \cup (IF k1.cos_table = NULL THEN {"cos_table"} ELSE {})

\* the guard in front of init_fast_trig_tables and what the fill did
EnsureTrigAlloc(k, total_size, oks, okc) ==
    IF k.sin_table = NULL \/ k.trig_table_size < total_size
    THEN [k |-> init_fast_trig_tables_alloc(k, total_size, oks, okc),
          nullUse |-> TrigNullUse(
              init_fast_trig_tables_alloc(k, total_size, oks, okc))]
    ELSE [k |-> k, nullUse |-> {}]

\* the guard at the head of fft_1d
EnsureTwiddleAlloc(k, n, ok) ==
    IF k.twiddle_table = <<>> \/ k.twiddle_table_size < n
    THEN init_twiddle_table_alloc(k, n, ok) ELSE k

\* the butterflies read twiddle_table (as the fill wrote it)
TwiddleUsed(k1) ==
    [k |-> k1,
     nullUse |-> IF k1.twiddle_table = <<>> THEN {"twiddle_table"} ELSE {}]

\* fft_1d(data, n, inverse) as far as the caches go
Fft1dAlloc(k, n, ok) ==
    IF n <= 1 THEN [k |-> k, nullUse |-> {}]
    ELSE TwiddleUsed(EnsureTwiddleAlloc(k, n, ok))

WithUse(r, nu) == [k |-> r.k, nullUse |-> r.nullUse \cup nu]

\* fft_2d on grid_size x grid_size once ensure_fft_temp_buffer has
\* returned; the rows and the columns have the same length, and the malloc
\* of the twiddle table is taken to fail for both or for neither
PsfGridFft(k2, nu1, grid_size, oktw) ==
    IF k2.fft_temp_buffer = NULL THEN [k |-> k2, nullUse |-> nu1]
    ELSE WithUse(Fft1dAlloc(k2, grid_size, oktw), nu1)

\* calculate_psf_grid_wasm after the sin/cos guard; okbuf: whether
\* complex_amp and psf_intensity are allocated; trap: whether a write
\* through a null pointer ends the call
PsfGridAfterTrig(t, grid_size, okbuf, oktmp, oktw, trap) ==
    IF (t.nullUse # {} /\ trap) \/ ~okbuf THEN t
    ELSE PsfGridFft(ensure_fft_temp_buffer(t.k, grid_size * grid_size, oktmp),
                    t.nullUse, grid_size, oktw)

PsfGridAlloc(k, grid_size, oks, okc, okbuf, oktmp, oktw, trap) ==
    PsfGridAfterTrig(
        EnsureTrigAlloc(k, grid_size * grid_size, oks, okc),
        grid_size, okbuf, oktmp, oktw, trap)

\* what a call leaves
AllocDone(r, trap) ==
    /\ SetCaches(r.k)
    /\ al' = [state |-> IF r.nullUse # {} /\ trap THEN "trapped"
                        ELSE "running",
              nullUse |-> al.nullUse \cup r.nullUse]
    /\ UNCHANGED callVars

AllocFft1d(n, ok, trap) ==
    /\ al.state = "running"
    /\ AllocDone(Fft1dAlloc(Caches, n, ok), trap)

AllocPsfGrid(grid_size, oks, okc, okbuf, oktmp, oktw, trap) ==
    /\ al.state = "running"
    /\ AllocDone(PsfGridAlloc(Caches, grid_size, oks, okc, okbuf, oktmp,
                              oktw, trap), trap)

AllocCleanup ==
    /\ al.state = "running"
    /\ SetCaches(cleanup_wasm_module(Caches))
    /\ UNCHANGED <<al, callVars>>

----------------------------------------------------------------------------
(* Specifications.                                                         *)

\* the variables of the single-function models
aux == <<sh, tg, pu, ig, al>>
AuxIdle ==
    /\ sh = ShIdle /\ tg = TgIdle /\ pu = PuIdle /\ ig = IgIdle
    /\ al = AlIdle

vars == <<cacheVars, callVars, dc, ee, ray, aux>>

FreshProcess ==
    /\ twiddle_table = NoCaches.twiddle_table
    /\ twiddle_table_size = NoCaches.twiddle_table_size
    /\ sin_table = NoCaches.sin_table
    /\ cos_table = NoCaches.cos_table
    /\ trig_table_size = NoCaches.trig_table_size
    /\ fft_temp_buffer = NoCaches.fft_temp_buffer
    /\ fft_temp_capacity = NoCaches.fft_temp_capacity
    /\ data = <<>>
    /\ rt = NoRt
    /\ last = NoCall
    /\ maxReq = 0
    /\ heap = NoHeap
    /\ ret = NULL

\* the caches are as in the record k
SetCachesNow(k) ==
    /\ twiddle_table = k.twiddle_table
    /\ twiddle_table_size = k.twiddle_table_size
    /\ sin_table = k.sin_table
    /\ cos_table = k.cos_table
    /\ trig_table_size = k.trig_table_size
    /\ fft_temp_buffer = k.fft_temp_buffer
    /\ fft_temp_capacity = k.fft_temp_capacity

\* The cache model: a fresh process and every sequence of calls.
Init ==
    FreshProcess /\ dc = DcIdle /\ ee = EeIdle /\ ray = RayIdle /\ AuxIdle

Next ==
    \/ /\ \E n \in Lengths, inverse \in BOOLEAN : \E x \in Inputs(n) :
             Fft1dCall(n, inverse, x)
       /\ UNCHANGED <<dc, ee, ray, aux>>
    \/ Fft1dBack /\ UNCHANGED <<dc, ee, ray, aux>>
    \/ /\ \E w \in GridSizes, h \in GridSizes :
             \E ok \in MallocOutcomes(w * h) :
                Fft2dCall(w, h, FALSE, Arr(Imp(w * h, 0, COne)), ok)
       /\ UNCHANGED <<dc, ee, ray, aux>>
    \/ /\ \E g \in GridSizes, okset \in SUBSET BufferNames :
             \* fft_2d is reached only when every buffer was allocated
             \E ok \in IF okset = BufferNames THEN MallocOutcomes(g * g)
                       ELSE {TRUE} :
                CalculatePsf(g, okset, ok)
       /\ UNCHANGED <<dc, ee, ray, aux>>
    \/ /\ \E g \in GridSizes, okset \in SUBSET {"complex_amp", "psf_intensity"} :
             \E ok \in IF okset = {"complex_amp", "psf_intensity"}
                       THEN MallocOutcomes(g * g) ELSE {TRUE} :
                CalculatePsfGrid(g, okset, ok)
       /\ UNCHANGED <<dc, ee, ray, aux>>
    \/ FreePsfResult /\ UNCHANGED <<dc, ee, ray, aux>>
    \/ Cleanup /\ UNCHANGED <<dc, ee, ray, aux>>

Spec == Init /\ [][Next]_vars

\* The two 1D FFTs: an array, a length, a direction and a cache state, then
\* the call.
InitDC ==
    /\ \E k \in DcCaches :
          /\ twiddle_table = k.twiddle_table
          /\ twiddle_table_size = k.twiddle_table_size
          /\ sin_table = k.sin_table
          /\ cos_table = k.cos_table
          /\ trig_table_size = k.trig_table_size
          /\ fft_temp_buffer = k.fft_temp_buffer
          /\ fft_temp_capacity = k.fft_temp_capacity
    /\ data = <<>> /\ rt = NoRt /\ last = NoCall /\ maxReq = 0
    /\ heap = NoHeap /\ ret = NULL
    /\ \E n \in DcLengths, inverse \in BOOLEAN : \E x \in Inputs(n) :
          dc = [DcIdle EXCEPT !.state = "ready", !.n = n,
                              !.inverse = inverse, !.x = x]
    /\ ee = EeIdle /\ ray = RayIdle /\ AuxIdle

NextDC == (\E ok \in BOOLEAN : DcCall(ok)) /\ UNCHANGED <<ee, ray, aux>>

SpecDC == InitDC /\ [][NextDC]_vars

\* calculate_encircled_energy on every array and radius list tried.
InitEE ==
    /\ FreshProcess /\ dc = DcIdle /\ ray = RayIdle /\ AuxIdle
    /\ \E size \in 1..MaxEESize, radii \in EeRadii : \E psf \in EePsfs(size) :
          ee = [EeIdle EXCEPT !.state = "ready", !.size = size,
                              !.psf = psf, !.radii = radii]

NextEE == EeCall /\ UNCHANGED <<cacheVars, callVars, dc, ray, aux>>

SpecEE == InitEE /\ [][NextEE]_vars

\* intersect_aspheric_rt10 on every ray, surface and setting tried.
InitRay ==
    /\ FreshProcess /\ dc = DcIdle /\ ee = EeIdle /\ AuxIdle
    /\ \E in \in RayInputs : ray = [RayIdle EXCEPT !.pc = "ready", !.in = in]

NextRay ==
    \/ RayEnter /\ UNCHANGED <<cacheVars, callVars, dc, ee, aux>>
    \/ RaySeed /\ UNCHANGED <<cacheVars, callVars, dc, ee, aux>>
    \/ RayNewton /\ UNCHANGED <<cacheVars, callVars, dc, ee, aux>>

SpecRay == InitRay /\ [][NextRay]_vars

\* fft_shift twice on every array tried.
InitShift ==
    /\ FreshProcess /\ dc = DcIdle /\ ee = EeIdle /\ ray = RayIdle
    /\ tg = TgIdle /\ pu = PuIdle /\ ig = IgIdle /\ al = AlIdle
    /\ \E size \in 1..MaxShiftSize : \E a \in ShiftArrays(size) :
          sh = [ShIdle EXCEPT !.state = "ready", !.size = size,
                              !.orig = a, !.data = a]

NextShift ==
    ShiftCall /\ UNCHANGED <<cacheVars, callVars, dc, ee, ray, tg, pu, ig, al>>

SpecShift == InitShift /\ [][NextShift]_vars

\* The table reads: FFT, PSF and cleanup calls in any order, and fast_sin /
\* fast_cos called in the cache states they leave.
InitTrig ==
    /\ FreshProcess /\ dc = DcIdle /\ ee = EeIdle /\ ray = RayIdle
    /\ sh = ShIdle /\ tg = TgIdle /\ pu = PuIdle /\ ig = IgIdle
    /\ al = AlIdle

NextTrig ==
    \/ (\E x \in TrigArgs : TrigLookup(x)) /\ UNCHANGED <<dc, ee, ray, sh, pu, ig, al>>
    \/ /\ \E n \in Lengths, inverse \in BOOLEAN : TrigFft(n, inverse)
       /\ UNCHANGED <<dc, ee, ray, sh, pu, ig, al>>
    \/ (\E g \in GridSizes : TrigPsf(g)) /\ UNCHANGED <<dc, ee, ray, sh, pu, ig, al>>
    \/ TrigCleanup /\ UNCHANGED <<dc, ee, ray, sh, pu, ig, al>>

SpecTrig == InitTrig /\ [][NextTrig]_vars

\* The complex pupil of a PSF call of either form: the caches as the guard
\* at the head of the call leaves them, the arrays tried, then the pupil.
InitPupil ==
    /\ \E size \in GridSizes, c \in PriorCaches :
         /\ SetCachesNow(EnsureTrig(c, size * size))
         /\ \/ \E opd \in PupilOpds(size * size),
                  mask \in PupilMasks(size * size) :
                 pu = [PuIdle EXCEPT
                         !.state = "ready", !.form = "ray", !.size = size,
                         !.opd = opd, !.mask = mask,
                         !.amplitude = UniformAmplitude(size * size)]
            \/ \E opd \in PupilOpds(size * size) \cup {<<>>},
                  mask \in PupilMasks(size * size) \cup {<<>>},
                  amp \in PupilAmplitudes(size * size) \cup {<<>>} :
                 pu = [PuIdle EXCEPT
                         !.state = "ready", !.form = "grid", !.size = size,
                         !.opd = opd, !.mask = mask, !.amplitude = amp]
    /\ data = <<>> /\ rt = NoRt /\ last = NoCall /\ maxReq = 0
    /\ heap = NoHeap /\ ret = NULL
    /\ dc = DcIdle /\ ee = EeIdle /\ ray = RayIdle
    /\ sh = ShIdle /\ tg = TgIdle /\ ig = IgIdle /\ al = AlIdle

NextPupil == PupilBuild /\ UNCHANGED <<dc, ee, ray, sh, tg, ig, al>>

SpecPupil == InitPupil /\ [][NextPupil]_vars

\* the call has not returned
RayRunning == ray.pc \in {"ready", "seed", "iter"}

\* WF_vars(NextRay) with the enabling condition written out: NextRay can
\* step exactly when the call has not returned.  The first disjunct is
\* never a step of NextRay; it states when the action is enabled without
\* running the loop body to find out.
RayFair ==
    WF_vars(\/ /\ RayRunning /\ ray' = RayIdle
               /\ UNCHANGED <<cacheVars, callVars, dc, ee, aux>>
            \/ NextRay)

\* intersect_aspheric_rt10 as a call that runs on: a loop head or a loop
\* body that can be taken is eventually taken.
SpecRayLive == InitRay /\ [][NextRay]_vars /\ RayFair

\* interpolate_opd_grid on every grid, coordinate range and ray set tried.
InitInterp ==
    /\ FreshProcess /\ dc = DcIdle /\ ee = EeIdle /\ ray = RayIdle
    /\ sh = ShIdle /\ tg = TgIdle /\ pu = PuIdle /\ al = AlIdle
    /\ \E g \in InterpGrids, b \in InterpRanges, rays \in InterpRays :
          ig = [IgIdle EXCEPT
                  !.state = "ready",
                  !.in = [grid_size |-> g, min_x |-> b[1], max_x |-> b[2],
                          min_y |-> b[3], max_y |-> b[4], rays |-> rays]]

NextInterp == InterpCall /\ UNCHANGED <<dc, ee, ray, sh, tg, pu, al>>

SpecInterp == InitInterp /\ [][NextInterp]_vars

\* The caches under every outcome of every malloc: a fresh process, then
\* any sequence of fft_1d, calculate_psf_grid_wasm and cleanup_wasm_module.
InitAlloc ==
    /\ FreshProcess /\ dc = DcIdle /\ ee = EeIdle /\ ray = RayIdle
    /\ sh = ShIdle /\ tg = TgIdle /\ pu = PuIdle /\ ig = IgIdle
    /\ al = [AlIdle EXCEPT !.state = "running"]

NextAlloc ==
    \/ /\ \E n \in Lengths, ok \in BOOLEAN, trap \in BOOLEAN :
             AllocFft1d(n, ok, trap)
       /\ UNCHANGED <<dc, ee, ray, sh, tg, pu, ig>>
    \/ /\ \E g \in GridSizes, oks \in BOOLEAN, okc \in BOOLEAN,
             okbuf \in BOOLEAN, oktmp \in BOOLEAN, oktw \in BOOLEAN,
             trap \in BOOLEAN :
             AllocPsfGrid(g, oks, okc, okbuf, oktmp, oktw, trap)
       /\ UNCHANGED <<dc, ee, ray, sh, tg, pu, ig>>
    \/ AllocCleanup /\ UNCHANGED <<dc, ee, ray, sh, tg, pu, ig>>

SpecAlloc == InitAlloc /\ [][NextAlloc]_vars

----------------------------------------------------------------------------
(* Claims about the cache model.                                           *)

\* C1: a forward fft_1d followed by the inverse fft_1d of the same length
\* returns the input, in every reachable cache state.
C1_RoundTrip == rt.state = "back" => data = rt.orig

\* C2: after cleanup_wasm_module all three caches are released: the twiddle
\* table, the sin/cos tables and the scratch buffer are null and the three
\* sizes are 0.
C2_CleanupReleasesAll ==
    last.op = "cleanup_wasm_module" =>
        /\ twiddle_table = <<>> /\ twiddle_table_size = 0
        /\ sin_table = NULL /\ cos_table = NULL /\ trig_table_size = 0
        /\ fft_temp_buffer = NULL /\ fft_temp_capacity = 0

\* the last call asked for more scratch than it found and malloc failed
GrowthFailed == last.need > last.cap0 /\ ~last.ok

\* C6 (as claimed): when the scratch buffer must grow and the allocation
\* fails, fft_temp_buffer and fft_temp_capacity are the same afterwards as
\* before.
C6_FailedGrowthKeepsBuffer ==
    GrowthFailed =>
        fft_temp_buffer = last.buf0 /\ fft_temp_capacity = last.cap0

\* C6 (amended): when the scratch buffer must grow and the allocation
\* fails, the buffer held before has been freed: fft_temp_buffer is null
\* and fft_temp_capacity is 0 afterwards.
C6_FailedGrowthReleasesBuffer ==
    GrowthFailed => fft_temp_buffer = NULL /\ fft_temp_capacity = 0

\* a growth attempt failed while a buffer was held
C6_Witness == GrowthFailed /\ last.buf0 = ALLOC /\ last.cap0 > 0

PsfOps == {"calculate_psf_wasm", "calculate_psf_grid_wasm"}
BuffersOf(op) ==
    IF op = "calculate_psf_wasm" THEN BufferNames
    ELSE {"complex_amp", "psf_intensity"}

\* C7: if any allocation of a PSF call fails, the call returns null and
\* every buffer it did allocate has been freed exactly once; if all
\* succeed, every intermediate buffer has been freed exactly once and the
\* returned intensity array is the only buffer still live, which
\* free_psf_result then frees once (and it does nothing on null).
C7_BuffersFreedOnce ==
    /\ \A b \in BufferNames : heap[b].allocs <= 1 /\ heap[b].frees <= heap[b].allocs
    /\ last.op \in PsfOps =>
          /\ \A b \in BufferNames \ BuffersOf(last.op) : heap[b].allocs = 0
          /\ IF \E b \in BuffersOf(last.op) : heap[b].allocs = 0
             THEN /\ ret = NULL
                  /\ \A b \in BufferNames : heap[b].frees = heap[b].allocs
             ELSE /\ ret = ALLOC
                  /\ \A b \in BuffersOf(last.op) :
                        heap[b].frees = IF b = "psf_intensity" THEN 0 ELSE 1
    /\ last.op = "free_psf_result" =>
          \A b \in BufferNames : heap[b].frees = heap[b].allocs

\* a PSF call failed after allocating some of its buffers
C7_Witness ==
    /\ last.op = "calculate_psf_wasm" /\ ret = NULL
    /\ heap["grid_opd"].allocs = 1 /\ heap["grid_opd"].frees = 1
    /\ heap["pupil_mask"].allocs = 0

\* the M-th root of unity cos(-2 pi i/M), sin(-2 pi i/M), as an angle
ExactTwiddle(i, M) == (-((i * U) \div M)) % U

\* C8: whenever the twiddle table is present its length M is the largest
\* FFT length requested since it was last absent, and entry i is the M-th
\* root of unity (cos(-2 pi i/M), sin(-2 pi i/M)).
C8_TwiddleExact ==
    twiddle_table # <<>> =>
        /\ twiddle_table_size = maxReq
        /\ DOMAIN twiddle_table = 0..(twiddle_table_size - 1)
        /\ \A i \in DOMAIN twiddle_table :
              twiddle_table[i] = ExactTwiddle(i, twiddle_table_size)

----------------------------------------------------------------------------
(* Claims about the two 1D FFTs and about the encircled energy.            *)

\* C10: fft_1d_divide_conquer gives the same output as fft_1d for the same
\* input, power-of-two length (also above 64) and direction, the inverse
\* output being scaled by 1/n (checked for the calls whose allocations
\* succeed).
C10_DivideConquerEqualsIterative ==
    dc.state = "done" /\ dc.ok => dc.out = dc.ref

InUnit(o) == o.kind = "num" /\ 0 <= o.num /\ o.num <= o.den
IsOne(o) == o.kind = "num" /\ o.num = o.den

\* C9: for non-negative intensities and strictly increasing radii the
\* outputs of calculate_encircled_energy are non-decreasing, each in
\* [0, 1], and the last is 1 when r_k >= N*sqrt(2)/2; also when the total
\* energy is 0.
C9_EncircledEnergy ==
    ee.state = "done" =>
        LET k == Len(ee.radii)
        IN  /\ \A r \in 1..k : InUnit(ee.out[r])
            /\ \A r \in 1..(k - 1) :
                  ee.out[r].num * ee.out[r + 1].den
                      <= ee.out[r + 1].num * ee.out[r].den
            /\ ee.radii[k] * ee.radii[k] >= 2 * ee.size * ee.size
                  => IsOne(ee.out[k])

----------------------------------------------------------------------------
(* Claims about intersect_aspheric_rt10.                                   *)

Hit == ray.pc = "done" /\ DNe(ray.result, MinusOne)

\* the point origin + t * direction: its distance from the axis and its
\* height above the surface
HitR(in, t) ==
    LET x == DAdd(in.ox, DMul(in.dx, t))
        y == DAdd(in.oy, DMul(in.dy, t))
    IN  DSqrt(DAdd(DMul(x, x), DMul(y, y)))
HitF(in, t) ==
    DSub(DAdd(in.oz, DMul(in.dz, t)),
         aspheric_sag_rt10(HitR(in, t), in.radius, in.conic, in.coefs,
                           in.modeOdd))

\* |F| <= tol for the effective tolerance: the caller's when it is
\* positive, 1e-7 otherwise (which a multiple of 1e-6 meets only as 0)
WithinTol(in, F) ==
    IF DGt(in.tol, Zero) THEN DLe(DAbs(F), in.tol) ELSE DEq(F, Zero)

RECURSIVE NewtonFrom(_, _, _, _, _)
NewtonFrom(in, tol, maxIter, t, i) ==
    IF i >= maxIter THEN [kind |-> "break", why |-> "exhausted", t |-> t]
    ELSE LET b == NewtonBody(in, tol, t)
         IN  IF b.kind = "next" THEN NewtonFrom(in, tol, maxIter, b.t, i + 1)
             ELSE b

SeedOutcome(g) ==
    IF ~DGt(ray.guesses[g].t, Zero) \/ ~isfinite(ray.guesses[g].t)
    THEN [kind |-> "break", why |-> "skipped", t |-> ray.guesses[g].t]
    ELSE NewtonFrom(ray.in, ray.tol, ray.maxIter, ray.guesses[g].t, 0)

Converging == {g \in 1..Len(ray.guesses) : SeedOutcome(g).kind = "return"}
Earliest(S) == CHOOSE g \in S : \A h \in S : g <= h

Rank(kind) ==
    CASE kind = "sphere" -> 1
      [] kind = "plane" -> 2
      [] kind = "edge08" -> 3
      [] kind = "edge10" -> 4
      [] kind = "ladder" -> 5

\* the order of the seeds: sphere roots ascending, then the plane
\* crossing, then the 0.8 and the 1.0 edge guess; or the ladder alone
SeedOrder(g) ==
    /\ Len(g) >= 1
    /\ IF \E a \in 1..Len(g) : g[a].kind = "ladder"
       THEN g = <<Seed(Fin(1), "ladder"), Seed(Fin(100), "ladder"),
                  Seed(Fin(10000), "ladder")>>
       ELSE \A a \in 1..Len(g), b \in 1..Len(g) :
               a < b => IF g[a].kind = "sphere" /\ g[b].kind = "sphere"
                        THEN DLe(g[a].t, g[b].t)
                        ELSE Rank(g[a].kind) < Rank(g[b].kind)
    /\ \A a \in 1..Len(g) :
          g[a].kind = "plane" => g[a].t = DDiv(DNeg(ray.in.oz), ray.in.dz)

NonFiniteComponent ==
    \E c \in {ray.in.ox, ray.in.oy, ray.in.oz,
              ray.in.dx, ray.in.dy, ray.in.dz} : c.k # "fin"

----------------------------------------------------------------------------
(* Claims about fft_shift.                                                 *)

\* C11: fft_shift applied twice to a size x size array returns the array,
\* element for element, for every size (even, odd, 1).
C11_ShiftInvolution == sh.state = "twice" => sh.data = sh.orig

\* an odd side of 3 or more, shifted twice, the first shift having moved
\* something
C11_Witness ==
    /\ sh.state = "twice"
    /\ sh.size % 2 = 1 /\ sh.size >= 3
    /\ sh.mid # sh.orig

----------------------------------------------------------------------------
(* Claims about fast_sin / fast_cos and the table reads.                   *)

\* the value is the number 0.0 as a sine / 1.0 as a cosine
IsZeroSine(v) == v.kind = "ang" /\ v.a \in {0, U \div 2}
IsOneCosine(v) == v.kind = "ang" /\ v.a = 0

C20_ReadsInBounds ==
    /\ \A t \in tg.reads : 0 <= t /\ t < twiddle_table_size
    /\ \A t \in tg.trigReads : 0 <= t /\ t < trig_table_size

\* an fft_1d that read the twiddle table and, through init_twiddle_table
\* and its negative angles, the sin/cos tables
C20_Witness ==
    /\ tg.state = "fft" /\ twiddle_table_size > 2
    /\ tg.reads # {} /\ tg.trigReads # {}

----------------------------------------------------------------------------
(* Claims about the complex pupil.                                         *)

\* the inputs of cell q as the call reads them
PuSign == IF pu.form = "ray" THEN 1 ELSE -1
PuAmp(q) == IF pu.amplitude = <<>> THEN 1 ELSE pu.amplitude[q]
PuPhase(q) == PhaseOf(PuSign, IF pu.opd = <<>> THEN TFin(0) ELSE pu.opd[q])
PuCells == 0..(pu.size * pu.size - 1)

\* amp * (cos x, sin x) for the angle x
Polar(amp, x) == CLin(Root(x), amp, CZero, 1)

\* C12 (as claimed): a cell whose mask is 0 is (0, 0); a cell whose mask
\* is nonzero is amplitude * (cos(k opd), sin(k opd)), k = +2 pi / lambda
\* in the ray form and -2 pi / lambda in the grid form, a null amplitude
\* counting as 1 and a null opd as 0.
C12_PupilExact ==
    pu.state = "built" /\ pu.mask # <<>> =>
        \A q \in PuCells :
            IF pu.mask[q] = 0 THEN pu.field[q] = CZero
            ELSE pu.field[q] = IF PuPhase(q).kind = "fin"
                               THEN Polar(PuAmp(q), PuPhase(q).a)
                               ELSE CNaN

\* C12 (amended): a cell whose mask is 0 (every cell, when the grid form's
\* mask is null) is (0, 0); a cell whose mask is nonzero is amplitude *
\* (cos x, sin x) for x the phase k opd reduced to [0, 2 pi) and rounded
\* down to a multiple of 2 pi / trig_table_size, and (amplitude, 0) when
\* the phase is not finite.
C12_PupilFromTable ==
    pu.state = "built" =>
        \A q \in PuCells :
            IF pu.mask = <<>> THEN pu.field[q] = CZero
            ELSE IF pu.mask[q] = 0 THEN pu.field[q] = CZero
            ELSE IF PuPhase(q).kind # "fin"
            THEN pu.field[q] = Polar(PuAmp(q), 0)
            ELSE \E t \in 0..(trig_table_size - 1) :
                    /\ U * t <= (PuPhase(q).a % U) * trig_table_size
                    /\ (PuPhase(q).a % U) * trig_table_size < U * (t + 1)
                    /\ pu.field[q] = Polar(PuAmp(q),
                                           (t * U) \div trig_table_size)

\* a pre-gridded pupil with a null amplitude, a cell masked in and a cell
\* masked out, and a phase that is not a multiple of the table's step
C12_Witness ==
    /\ pu.state = "built" /\ pu.form = "grid"
    /\ pu.amplitude = <<>> /\ pu.mask # <<>> /\ pu.opd # <<>>
    /\ \E q \in PuCells : pu.mask[q] = 0
    /\ \E q \in PuCells :
          /\ pu.mask[q] # 0 /\ PuPhase(q).kind = "fin"
          /\ (PuPhase(q).a * trig_table_size) % U # 0

----------------------------------------------------------------------------
(* Claims about the growth of the caches.                                  *)

\* C19: with no cleanup in between, whenever a PSF call of either form on
\* an N x N grid has built its complex pupil (it returned a result), the
\* sin/cos table has at least 4 * N * N entries.
C19_TableOversampled ==
    last.op \in PsfOps /\ ret # NULL => trig_table_size >= 4 * last.need

\* the step is an FFT or PSF call all of whose allocations succeeded
GrowingCall ==
    /\ last'.op \in {"fft_1d", "fft_2d"} \cup PsfOps
    /\ last'.ok
    /\ last'.op \in PsfOps => ret' # NULL

\* C13: across an FFT or PSF call whose allocations all succeed,
\* twiddle_table_size, trig_table_size and fft_temp_capacity never
\* decrease, and a cache is rebuilt only when the size asked for exceeds
\* its size: the twiddle table changes only by growing, the scratch buffer
\* and the sin/cos tables change size only when the call's element count
\* exceeds the size they had.
C13_CachesGrow ==
    [][GrowingCall =>
        /\ twiddle_table_size' >= twiddle_table_size
        /\ trig_table_size' >= trig_table_size
        /\ fft_temp_capacity' >= fft_temp_capacity
        /\ twiddle_table' # twiddle_table =>
              twiddle_table_size' > twiddle_table_size
        /\ fft_temp_capacity' # fft_temp_capacity =>
              /\ last'.need > fft_temp_capacity
              /\ fft_temp_capacity' = last'.need
        /\ trig_table_size' # trig_table_size =>
              last'.need > trig_table_size]_vars

\* a PSF call on a smaller grid than an earlier one has returned with
\* every allocation successful, after an FFT longer than the grid's side
C13_Witness ==
    /\ last.op \in PsfOps /\ last.ok /\ ret # NULL
    /\ last.need < fft_temp_capacity
    /\ 4 * last.need < trig_table_size
    /\ last.need < twiddle_table_size

----------------------------------------------------------------------------
(* Claims about the solver's running time.                                 *)

\* the iteration cap of the call: the caller's, or 20 when that is not
\* positive
CapOf(in) == IF in.maxIter > 0 THEN in.maxIter ELSE 20

\* C15: intersect_aspheric_rt10 always returns; it assembles at most 10
\* seeds, runs at most maxIter Newton iterations on a seed (20 when the
\* caller's maxIter is not positive), and has evaluated the sag at most
\* 10 * maxIter times when it returns.
C15_Terminates ==
    /\ [](ray.pc # "idle" =>
            /\ Len(ray.guesses) <= 10
            /\ ray.gi <= Len(ray.guesses)
            /\ ray.i <= CapOf(ray.in)
            /\ ray.sagCalls <= ray.gi * CapOf(ray.in) + ray.i
                            + (IF ray.pc = "done" THEN 1 ELSE 0)
            /\ ray.sagCalls <= 10 * CapOf(ray.in))
    /\ <>(ray.pc = "done")

\* a call with the default cap has returned after a seed ran all of its 20
\* iterations and another seed was tried
C15_Witness ==
    /\ ray.pc = "done" /\ ~(ray.in.maxIter > 0)
    /\ \E s \in 1..Len(ray.ended) : ray.ended[s] = "exhausted"
    /\ ray.sagCalls > 20

----------------------------------------------------------------------------
(* Claims about fft_2d without a scratch buffer.                           *)

\* C16: an fft_2d call that returns with fft_temp_buffer null (the growth
\* to W*H elements failed) leaves every element of the caller's array as
\* it was handed in, and leaves the twiddle table as it was.
C16_NoScratchNoChange ==
    [][last'.op = "fft_2d" /\ fft_temp_buffer' = NULL =>
          /\ data' = rt'.orig
          /\ twiddle_table' = twiddle_table
          /\ twiddle_table_size' = twiddle_table_size]_vars

\* an fft_2d on more than one element has returned after its malloc failed,
\* in a process whose twiddle table an earlier FFT had built
C16_Witness ==
    /\ last.op = "fft_2d" /\ ~last.ok /\ fft_temp_buffer = NULL
    /\ rt.state = "2d" /\ rt.n > 1 /\ data = rt.orig
    /\ twiddle_table_size > 0 /\ twiddle_table_size < rt.n

----------------------------------------------------------------------------
(* Claims about interpolate_opd_grid.                                      *)

IgCells == 0..(ig.in.grid_size * ig.in.grid_size - 1)
IgX(q) == GridX(ig.in, q \div ig.in.grid_size)
IgY(q) == GridY(ig.in, q % ig.in.grid_size)

\* ray k is the nearest ray of cell q: no ray is nearer and no earlier ray
\* is as near (a ray at which the scan may stop early is such a ray)
NearestRay(k, q) ==
    \A n \in 1..Len(ig.in.rays) :
        /\ DistSq(ig.in, k, IgX(q), IgY(q)) <= DistSq(ig.in, n, IgX(q), IgY(q))
        /\ n < k => DistSq(ig.in, k, IgX(q), IgY(q))
                      < DistSq(ig.in, n, IgX(q), IgY(q))

\* C17: every cell with gx^2 + gy^2 <= max(|max_x|, |max_y|)^2 has mask 1
\* and the opd of its nearest ray (lowest index on ties); every other cell
\* has mask 0 and opd 0; for every ray set, an empty one and one of rays
\* very far from the cell included.
C17_NearestRayOpd ==
    ig.state = "done" =>
        \A q \in IgCells :
            IF InCircle(ig.in, IgX(q), IgY(q))
            THEN /\ ig.mask[q] = 1
                 /\ \E k \in 1..Len(ig.in.rays) :
                       NearestRay(k, q) /\ ig.opd[q] = ig.in.rays[k].opd
            ELSE ig.mask[q] = 0 /\ ig.opd[q] = 0

----------------------------------------------------------------------------
(* Claims about fft_1d and the state of the caches.                        *)

\* C18: the output of fft_1d(data, n, inverse) depends on data, n and
\* inverse only: a forward call returns what the same call returns in a
\* fresh process, where the twiddle table is built for length n from the
\* library sine and cosine, whatever table an earlier call has left.
C18_SameOutputAnyCaches ==
    rt.state = "fwd" =>
        data = fft_1d(NoCaches, rt.orig, rt.n, FALSE).data

----------------------------------------------------------------------------
(* Claims about the caches when allocations fail.                          *)

\* C21: in every reachable state, after a failed allocation too, a cache
\* whose recorded size is positive has its buffer (a non-null pointer to a
\* table of at least that many entries), sin_table and cos_table are both
\* null or both non-null, and no entry point has read or written through
\* a null cache pointer.
C21_CachesConsistent ==
    al.state # "idle" =>
        /\ twiddle_table_size > 0 =>
              /\ twiddle_table # <<>>
              /\ \A i \in 0..(twiddle_table_size - 1) :
                    i \in DOMAIN twiddle_table
        /\ trig_table_size > 0 => sin_table # NULL /\ cos_table # NULL
        /\ fft_temp_capacity > 0 => fft_temp_buffer # NULL
        /\ (sin_table = NULL) <=> (cos_table = NULL)
        /\ al.nullUse = {}

============================================================================
